---------------------------- MODULE Spec2Model ----------------------------
(***************************************************************************)
(* A state-machine model of the valuation API (veya-codes/ai-valuation-api).*)
(*                                                                         *)
(* Text is modelled as a sequence of one-character strings, so that the    *)
(* string functions of the program (strip, lower, split, join, the         *)
(* regular expressions of identify_property) are computed, not assumed.    *)
(* Money is in whole currency units.  Floating-point quantities are kept   *)
(* in fixed point: a percentage is kept in hundredths of a percent, a      *)
(* confidence of the resolver in hundredths, a pseudo-random number r in   *)
(* [0,1) as the numerator of r over RandDen.                               *)
(***************************************************************************)
EXTENDS Integers, Sequences, FiniteSets, TLC

(***************************************************************************)
(* Generic helpers on sequences and numbers.                               *)
(***************************************************************************)
Min(a, b) == IF a <= b THEN a ELSE b

Max(a, b) == IF a >= b THEN a ELSE b

Abs(a) == IF a < 0 THEN -a ELSE a

Range(s) == {s[i] : i \in 1..Len(s)}

\* x / d truncated toward zero, as Python's int() truncates a float quotient
TruncDiv(x, d) == IF x >= 0 THEN x \div d ELSE -((-x) \div d)

\* x / d rounded to the nearest integer, as Python's round() of the quotient
RoundDiv(x, d) == IF x >= 0 THEN (2 * x + d) \div (2 * d) ELSE -((2 * (-x) + d) \div (2 * d))

RECURSIVE SumSeq(_)
SumSeq(s) == IF s = <<>> THEN 0 ELSE Head(s) + SumSeq(Tail(s))

(***************************************************************************)
(* Characters.                                                             *)
(***************************************************************************)
UpperChars == <<"A","B","C","D","E","F","G","H","I","J","K","L","M","N","O","P","Q","R","S","T","U","V","W","X","Y","Z">>

LowerChars == <<"a","b","c","d","e","f","g","h","i","j","k","l","m","n","o","p","q","r","s","t","u","v","w","x","y","z">>

DigitChars == <<"0","1","2","3","4","5","6","7","8","9">>

IsSpace(c) == c \in {" ", "\t"}

UpperSet == Range(UpperChars)

LowerSet == Range(LowerChars)

DigitSet == Range(DigitChars)

IsDigit(c) == c \in DigitSet

IsUpper(c) == c \in UpperSet

IsAlpha(c) == c \in UpperSet \/ c \in LowerSet

\* \w of the re module
IsWord(c) == IsAlpha(c) \/ IsDigit(c) \/ c = "_"

IndexIn(c, tab) == CHOOSE i \in 1..Len(tab) : tab[i] = c

\* str.lower(), tabulated for the upper-case letters
LowerTable == [c \in UpperSet |-> LowerChars[IndexIn(c, UpperChars)]]

\* str.lower() on one character
LowerChar(c) == IF IsUpper(c) THEN LowerTable[c] ELSE c

Punctuation == {" ", "\t", "#", ",", "-", ".", "_"}

\* the UTF-8 codes of the characters of the model's alphabet (all are ASCII)
OrdTable ==
  [c \in UpperSet \cup LowerSet \cup DigitSet \cup Punctuation |->
     IF IsUpper(c) THEN 64 + IndexIn(c, UpperChars)
     ELSE IF IsAlpha(c) THEN 96 + IndexIn(c, LowerChars)
     ELSE IF IsDigit(c) THEN 47 + IndexIn(c, DigitChars)
     ELSE CASE c = " " -> 32 [] c = "\t" -> 9 [] c = "#" -> 35
            [] c = "," -> 44 [] c = "-" -> 45 [] c = "." -> 46 [] c = "_" -> 95]

Ord(c) == IF c \in DOMAIN OrdTable THEN OrdTable[c] ELSE 63

(***************************************************************************)
(* src/app/core/utils.py: normalize_address.                               *)
(***************************************************************************)
lower(s) == [i \in 1..Len(s) |-> LowerChar(s[i])]

RECURSIVE lstrip(_)
lstrip(s) == IF s # <<>> /\ IsSpace(Head(s)) THEN lstrip(Tail(s)) ELSE s

RECURSIVE rstrip(_)
rstrip(s) == IF s # <<>> /\ IsSpace(s[Len(s)]) THEN rstrip(SubSeq(s, 1, Len(s) - 1)) ELSE s

strip(s) == rstrip(lstrip(s))

\* the first whitespace-delimited word of s, s not starting with whitespace
RECURSIVE WordPrefix(_)
WordPrefix(s) ==
  IF s = <<>> \/ IsSpace(Head(s)) THEN <<>> ELSE <<Head(s)>> \o WordPrefix(Tail(s))

\* str.split() with no argument: the words between runs of whitespace
RECURSIVE split(_)
split(s) ==
  LET t == lstrip(s)
      w == WordPrefix(t)
  IN  IF t = <<>> THEN <<>> ELSE <<w>> \o split(SubSeq(t, Len(w) + 1, Len(t)))

\* " ".join(words)
RECURSIVE join(_)
join(ws) ==
  IF ws = <<>> THEN <<>>
  ELSE IF Len(ws) = 1 THEN ws[1]
  ELSE ws[1] \o <<" ">> \o join(Tail(ws))

\* a normalization that keeps the case of the letters
normalize_address_keeps_case(addr) == join(split(strip(addr)))

normalize_address(addr) == join(split(lower(strip(addr))))

(***************************************************************************)
(* src/app/core/utils.py: fnv1a_32, seeded_rand, money_band, sparkline,    *)
(* weak_etag.  TLC's integers are 32-bit signed, so fnv1a_32 is computed   *)
(* on the low 16 bits of the hash word (for xor and for multiplication     *)
(* modulo a power of two, the low 16 bits of the result depend only on     *)
(* the low 16 bits of the operands, so this is the low half of the real    *)
(* hash).  seeded_rand mixes a 16-bit word in the way the code mixes a     *)
(* 32-bit one and returns the numerator of r over RandDen.                 *)
(***************************************************************************)
HashWord == 2^16

RandDen == 2^8

RECURSIVE XorBits(_, _)
XorBits(a, b) ==
  IF a = 0 THEN b ELSE IF b = 0 THEN a
  ELSE (((a % 2) + (b % 2)) % 2) + 2 * XorBits(a \div 2, b \div 2)

\* a ^ b of two hexadecimal digits, tabulated
XorTable == [a \in 0..15 |-> [b \in 0..15 |-> XorBits(a, b)]]

\* a ^ b, digit by digit
BitXor(a, b) ==
  XorTable[a % 16][b % 16]
  + 16 * XorTable[(a \div 16) % 16][(b \div 16) % 16]
  + 256 * XorTable[(a \div 256) % 16][(b \div 256) % 16]
  + 4096 * XorTable[(a \div 4096) % 16][(b \div 4096) % 16]
  + 65536 * (IF a < 65536 /\ b < 65536 THEN 0 ELSE XorBits(a \div 65536, b \div 65536))

\* a | b: a + b = (a ^ b) + 2 * (a & b) and a | b = (a ^ b) + (a & b)
BitOr(a, b) == (a + b + BitXor(a, b)) \div 2

\* (a * b) mod HashWord without leaving the 32-bit range
MulWord(a, b) ==
  LET x == a % HashWord
      y == b % HashWord
  IN  ((x * (y % 256)) + ((x * (y \div 256)) % 256) * 256) % HashWord

\* 0x811c9dc5 and 0x01000193, low 16 bits
FNV_OFFSET == 40389

FNV_PRIME == 403

\* the loop of fnv1a_32 over the rest s of the bytes; h is always a hash word
RECURSIVE FnvFold(_, _)
FnvFold(h, s) ==
  IF s = <<>> \/ h \notin 0..(HashWord - 1) THEN h
  ELSE FnvFold(MulWord(BitXor(h, Ord(Head(s))), FNV_PRIME), Tail(s))

fnv1a_32(s) == FnvFold(FNV_OFFSET, s)

\* 0x6D2B79F5, low 16 bits
RAND_INCREMENT == 31221

\* the mixing of seeded_rand for one draw: r as a numerator over RandDen
Mulberry(seed) ==
  LET t0 == (seed + RAND_INCREMENT) % HashWord
      t1 == MulWord(BitXor(t0, t0 \div 2^7), BitOr(t0, 1))
      t2 == BitXor(t1, t1 + MulWord(BitXor(t1, t1 \div 2^3), BitOr(t1, 61)))
      r  == BitXor(t2, t2 \div 2^7) % HashWord
  IN  r \div (HashWord \div RandDen)

\* the mixing, tabulated once for every seed word
RandTable == [seed \in 0..(HashWord - 1) |-> Mulberry(seed)]

\* seeded_rand(seed, 1)[0] as a numerator over RandDen
seeded_rand(seed) == RandTable[seed % HashWord]

\* spread = 0.05 + r * 0.07, in thousandths; low/high = round(base * (1 -/+ spread))
money_band(base, seed) ==
  LET spread == 50 + (70 * seeded_rand(seed + 1)) \div RandDen
      delta  == RoundDiv(base * spread, 1000)
  IN  [low |-> base - delta, high |-> base + delta]

\* round(1000 * sin(x / 10)) for x = 0 .. 62, one period of the sine
SinTable == <<0,100,199,296,389,479,565,644,717,783,841,891,932,964,985,997,1000,992,974,946,909,863,808,746,675,598,516,427,335,239,141,42,-58,-158,-256,-351,-443,-530,-612,-688,-757,-818,-872,-916,-952,-978,-994,-1000,-996,-982,-959,-926,-883,-832,-773,-706,-631,-551,-465,-374,-279,-182,-83>>

\* 1000 * sin(x / 10), the period taken as 6.3
Sin1000(x) == SinTable[(x % 63) + 1]

\* 12 points: v = 50 + sin((i+1)*0.6 + seed % 10) * 10 + r(seed + i) * 14, clamped to 0..100
sparkline(seed) ==
  [j \in 1..12 |->
     LET i == j - 1
         v == 5000 + Sin1000(6 * (i + 1) + 10 * (seed % 10)) + (1400 * seeded_rand(seed + i)) \div RandDen
     IN  RoundDiv(Max(0, Min(10000, v)), 100)]

\* W/"<first 24 hex digits of sha256(bytes)>": the digest is kept as the bytes it is
\* the digest of (a collision-free hash)
weak_etag(payload_bytes) == [weak |-> TRUE, digest |-> payload_bytes]

(***************************************************************************)
(* src/app/services/valuation_service.py: identify_property.               *)
(***************************************************************************)
Drop(s, n) == SubSeq(s, n + 1, Len(s))

RECURSIVE DigitPrefixLen(_)
DigitPrefixLen(s) == IF s # <<>> /\ IsDigit(Head(s)) THEN 1 + DigitPrefixLen(Tail(s)) ELSE 0

RECURSIVE SpacePrefixLen(_)
SpacePrefixLen(s) == IF s # <<>> /\ IsSpace(Head(s)) THEN 1 + SpacePrefixLen(Tail(s)) ELSE 0

RECURSIVE WordCharPrefixLen(_)
WordCharPrefixLen(s) == IF s # <<>> /\ IsWord(Head(s)) THEN 1 + WordCharPrefixLen(Tail(s)) ELSE 0

\* re.match(r"^\s*\d+\s*,\s*(.+)$", raw): the text after the comma, or "no match"
LeadingRest(raw) ==
  LET t == lstrip(raw)
      d == DigitPrefixLen(t)
      u == lstrip(Drop(t, d))
  IN  IF d >= 1 /\ u # <<>> /\ Head(u) = "," /\ Len(u) >= 2
      THEN [matched |-> TRUE, rest |-> Tail(u)]
      ELSE [matched |-> FALSE, rest |-> <<>>]

UnitKeywords == {<<"u","n","i","t">>, <<"a","p","t">>, <<"s","u","i","t","e">>}

HasPrefix(s, k) == Len(s) >= Len(k) /\ SubSeq(s, 1, Len(k)) = k

\* the length of a match of (unit|apt|suite)\s*\w+ (ignoring case) at the head of s, or 0
UnitMatchLen(s) ==
  LET ks == {k \in UnitKeywords : HasPrefix(lower(s), k)}
  IN  IF ks = {} THEN 0
      ELSE LET k  == CHOOSE x \in ks : TRUE
               a  == Drop(s, Len(k))
               sp == SpacePrefixLen(a)
               w  == WordCharPrefixLen(Drop(a, sp))
               \* \s* gives back its spaces when no word follows them
               w0 == WordCharPrefixLen(a)
           IN  IF w >= 1 THEN Len(k) + sp + w ELSE IF w0 >= 1 THEN Len(k) + w0 ELSE 0

\* the length of a match of #\s*\w+ at the head of s, or 0
HashMatchLen(s) ==
  IF s = <<>> \/ Head(s) # "#" THEN 0
  ELSE LET a  == Tail(s)
           sp == SpacePrefixLen(a)
           w  == WordCharPrefixLen(Drop(a, sp))
       IN  IF w >= 1 THEN 1 + sp + w ELSE 0

\* re.search(r"\b(unit|apt|suite)\s*\w+", s, re.IGNORECASE); prev is the character before s
RECURSIVE UnitSearch(_, _)
UnitSearch(prev, s) ==
  IF s = <<>> THEN FALSE
  ELSE IF ~IsWord(prev) /\ UnitMatchLen(s) > 0 THEN TRUE
  ELSE UnitSearch(Head(s), Tail(s))

\* re.sub(r"\b(unit|apt|suite)\s*\w+", "", s, flags=re.IGNORECASE)
RECURSIVE UnitSub(_, _)
UnitSub(prev, s) ==
  IF s = <<>> THEN <<>>
  ELSE LET n == IF IsWord(prev) THEN 0 ELSE UnitMatchLen(s)
       IN  IF n > 0 THEN UnitSub(s[n], Drop(s, n))
           ELSE <<Head(s)>> \o UnitSub(Head(s), Tail(s))

\* re.sub(r"#\s*\w+", "", s)
RECURSIVE HashSub(_)
HashSub(s) ==
  IF s = <<>> THEN <<>>
  ELSE LET n == HashMatchLen(s)
       IN  IF n > 0 THEN HashSub(Drop(s, n)) ELSE <<Head(s)>> \o HashSub(Tail(s))

RECURSIVE lstripComma(_)
lstripComma(s) == IF s # <<>> /\ Head(s) = "," THEN lstripComma(Tail(s)) ELSE s

RECURSIVE rstripComma(_)
rstripComma(s) == IF s # <<>> /\ s[Len(s)] = "," THEN rstripComma(SubSeq(s, 1, Len(s) - 1)) ELSE s

\* re.sub(r"\s+,", ",", s)
RECURSIVE SpaceCommaSub(_)
SpaceCommaSub(s) ==
  IF s = <<>> THEN <<>>
  ELSE LET sp == SpacePrefixLen(s)
       IN  IF sp >= 1 /\ Len(s) > sp /\ s[sp + 1] = "," THEN <<",">> \o SpaceCommaSub(Drop(s, sp + 1))
           ELSE IF sp >= 1 THEN SubSeq(s, 1, sp) \o SpaceCommaSub(Drop(s, sp))
           ELSE <<Head(s)>> \o SpaceCommaSub(Tail(s))

\* re.sub(r"\s{2,}", " ", s)
RECURSIVE MultiSpaceSub(_)
MultiSpaceSub(s) ==
  IF s = <<>> THEN <<>>
  ELSE LET sp == SpacePrefixLen(s)
       IN  IF sp >= 2 THEN <<" ">> \o MultiSpaceSub(Drop(s, sp))
           ELSE <<Head(s)>> \o MultiSpaceSub(Tail(s))

\* lines 72-76: the tidying of a cleaned address
TidyCleaned(cleaned) == MultiSpaceSub(SpaceCommaSub(rstripComma(lstripComma(strip(cleaned)))))

\* lines 55-76: the local unit rules; matched is unit_indicator
LocalRules(raw_address) ==
  LET lead == LeadingRest(raw_address)
  IN  IF lead.matched THEN [matched |-> TRUE, cleaned |-> TidyCleaned(strip(lead.rest))]
      ELSE IF UnitSearch(" ", raw_address) THEN [matched |-> TRUE, cleaned |-> TidyCleaned(UnitSub(" ", raw_address))]
      ELSE IF "#" \in Range(raw_address) THEN [matched |-> TRUE, cleaned |-> TidyCleaned(strip(HashSub(raw_address)))]
      ELSE [matched |-> FALSE, cleaned |-> raw_address]

\* a confidence of 1.0, in hundredths
FullConfidence == 100

\* a resolver that returns no candidate when the interpreter cannot be used or fails
identify_property_no_fallback(raw_address, api_key, model, reply) ==
  LET loc == LocalRules(raw_address)
  IN  IF loc.matched
      THEN << [address |-> loc.cleaned, property_type |-> "condo", confidence |-> FullConfidence] >>
      ELSE IF api_key = "" \/ model = "" \/ ~reply.ok
      THEN <<>>
      ELSE reply.candidates

\* identify_property: the candidates returned for raw_address.  api_key and model are
\* the settings read at lines 78-79; reply is the outcome of the interpreter call of
\* lines 92-105 (ok = FALSE: the call or the parsing raised), which the code makes
\* only when no local rule matches and both settings are set.
identify_property(raw_address, api_key, model, reply) ==
  LET loc == LocalRules(raw_address)
  IN  IF loc.matched
      THEN << [address |-> loc.cleaned, property_type |-> "condo", confidence |-> FullConfidence] >>
      ELSE IF api_key = "" \/ model = "" \/ ~reply.ok
      THEN << [address |-> raw_address, confidence |-> FullConfidence] >>
      ELSE reply.candidates

(***************************************************************************)
(* src/app/data: the geocode, comparables and trend providers.             *)
(* An optional attribute is <<v>> when present and <<>> when None.         *)
(* Latitude and longitude are in thousandths of a degree, a distance in    *)
(* hundredths of a kilometre, baths in tenths, an index value in           *)
(* hundredths; a date is a day number.                                     *)
(***************************************************************************)
None == <<>>

Some(v) == <<v>>

RECURSIVE NatToStr(_)
NatToStr(n) == IF n < 10 THEN <<DigitChars[n + 1]>> ELSE NatToStr(n \div 10) \o <<DigitChars[(n % 10) + 1]>>

\* the text of a number inside an f-string
NumToStr(n) == IF n < 0 THEN <<"-">> \o NatToStr(-n) ELSE NatToStr(n)

area_names == <<<<"D","o","w","n","t","o","w","n">>, <<"W","e","s","t"," ","E","n","d">>, <<"K","i","t","s","i","l","a","n","o">>, <<"M","o","u","n","t"," ","P","l","e","a","s","a","n","t">>, <<"F","a","i","r","v","i","e","w">>, <<"Y","a","l","e","t","o","w","n">>, <<"O","a","k","r","i","d","g","e">>>>

cities == << <<"Vancouver", "BC">>, <<"Victoria", "BC">>, <<"Burnaby", "BC">>, <<"Surrey", "BC">>, <<"Kelowna", "BC">> >>

\* f"MLS-{idx:02d}"
MlsCode(idx) == <<"M","L","S","-">> \o (IF idx < 10 THEN <<"0">> ELSE <<>>) \o NatToStr(idx)

\* MockGeocode.resolve
MockGeocode_resolve(address) ==
  LET seed == fnv1a_32(address)
      lat  == 42000 + (seeded_rand(seed) * 20500) \div RandDen
      lon  == -141000 + (seeded_rand(seed + 1) * 89000) \div RandDen
      idx  == ((seeded_rand(seed + 2) * Len(area_names)) \div RandDen) % Len(area_names)
      cidx == ((seeded_rand(seed + 3) * Len(cities)) \div RandDen) % Len(cities)
  IN  [point |-> [lat |-> lat, lon |-> lon],
       area |-> [name |-> area_names[idx + 1], code |-> Some(MlsCode(idx))],
       city |-> cities[cidx + 1][1], province |-> cities[cidx + 1][2], country |-> "Canada"]

\* the sort key of MockComps: (distance_km, -sale_date.toordinal())
CompBefore(a, b) ==
  \/ a.distance_km < b.distance_km
  \/ a.distance_km = b.distance_km /\ a.sale_date > b.sale_date

\* list.sort(key=...): a stable insertion of c into the sorted list s
RECURSIVE InsertComp(_, _)
InsertComp(c, s) ==
  IF s = <<>> THEN <<c>>
  ELSE IF CompBefore(c, Head(s)) THEN <<c>> \o s
  ELSE <<Head(s)>> \o InsertComp(c, Tail(s))

RECURSIVE SortComps(_)
SortComps(s) == IF s = <<>> THEN <<>> ELSE InsertComp(s[Len(s)], SortComps(SubSeq(s, 1, Len(s) - 1)))

\* MockComps.recent_sales; today is date.today()
MockComps_recent_sales(point, radius_km, max_age_days, limit, today) ==
  LET seed == fnv1a_32(NumToStr(point.lat) \o <<",">> \o NumToStr(point.lon))
      comp(i) ==
        [distance_km |-> RoundDiv(seeded_rand(seed + 7 * i) * radius_km * 100, RandDen),
         sale_price |-> 350000 + (seeded_rand(seed + i * 31) * 1850000) \div RandDen,
         sale_date |-> today - (seeded_rand(seed + i) * max_age_days) \div RandDen,
         beds |-> Some(2 + (seeded_rand(seed + 13 * i) * 4) \div RandDen),
         baths |-> Some(10 + RoundDiv(seeded_rand(seed + 17 * i) * 20, RandDen)),
         living_sqft |-> Some(600 + (seeded_rand(seed + 19 * i) * 2800) \div RandDen),
         property_type |-> Some(IF i % 2 = 0 THEN "house" ELSE "condo")]
  IN  SortComps([j \in 1..limit |-> comp(j - 1)])

\* the running index of MockTrends after each of the months i = months, .., k, in 1e-4:
\* idx starts at 100 + r * 8 and is multiplied by 1 + drift / 100 every month
RECURSIVE TrendIdx(_, _, _)
TrendIdx(seed, months, k) ==
  LET before == IF k = months THEN <<>> ELSE TrendIdx(seed, months, k + 1)
      prev   == IF k = months THEN 1000000 + (seeded_rand(seed) * 80000) \div RandDen
                ELSE before[Len(before)]
      \* drift = (r - 0.5) * 3.0 percent, in hundredths of a percent
      drift  == TruncDiv((2 * seeded_rand(seed + k) - RandDen) * 150, RandDen)
  IN  Append(before, prev + TruncDiv(prev * drift, 10000))

\* MockTrends.price_index: the point of month i is dated i months before today's month
MockTrends_price_index(area, months, today) ==
  LET seed == fnv1a_32(area.name \o (IF area.code = None THEN <<>> ELSE area.code[1]))
      idx  == IF months >= 1 THEN TrendIdx(seed, months, 1) ELSE <<>>
  IN  [j \in 1..months |->
         [date |-> [today |-> today, months_back |-> months + 1 - j], index |-> RoundDiv(idx[j], 100)]]

(***************************************************************************)
(* src/app/services/valuation_service.py, lines 135-190: the features.     *)
(* A median is kept doubled (in halves of the attribute's unit), so that   *)
(* the mean of the two middle values of an even count is exact.            *)
(***************************************************************************)
\* dict.get(key, default) on a dict modelled as a record
Get(d, k, default) == IF k \in DOMAIN d THEN d[k] ELSE default

RECURSIVE InsertInt(_, _)
InsertInt(x, s) ==
  IF s = <<>> THEN <<x>>
  ELSE IF x < Head(s) THEN <<x>> \o s
  ELSE <<Head(s)>> \o InsertInt(x, Tail(s))

RECURSIVE SortInts(_)
SortInts(s) == IF s = <<>> THEN <<>> ELSE InsertInt(Head(s), SortInts(Tail(s)))

\* statistics.median, doubled; it raises StatisticsError on an empty list
median(xs) ==
  LET s == SortInts(xs)
      n == Len(s)
  IN  IF n = 0 THEN [ok |-> FALSE, value |-> 0]
      ELSE IF n % 2 = 1 THEN [ok |-> TRUE, value |-> 2 * s[(n + 1) \div 2]]
      ELSE [ok |-> TRUE, value |-> s[n \div 2] + s[(n \div 2) + 1]]

\* [c.attr for c in comps if c.attr is not None]
RECURSIVE Present(_, _)
Present(comps, attr) ==
  IF comps = <<>> THEN <<>>
  ELSE (IF Head(comps)[attr] # None THEN <<Head(comps)[attr][1]>> ELSE <<>>) \o Present(Tail(comps), attr)

\* median([...]) if comps else default
MedianOr(comps, attr, default) ==
  IF comps # <<>> THEN median(Present(comps, attr)) ELSE [ok |-> TRUE, value |-> 2 * default]

\* t in s, for strings
RECURSIVE Contains(_, _)
Contains(s, t) ==
  IF Len(s) < Len(t) THEN FALSE
  ELSE IF SubSeq(s, 1, Len(t)) = t THEN TRUE
  ELSE Contains(Tail(s), t)

UnitTokens == {<<"#">>, <<"u","n","i","t">>, <<"a","p","t">>, <<"s","u","i","t","e">>}

\* a trend that takes a prior value of zero for a rise of 100 percent
TrendMomPctFromZero(index12) ==
  LET n == Len(index12)
  IN  IF n >= 2
      THEN (IF index12[n - 1].index # 0
            THEN TruncDiv((index12[n].index - index12[n - 1].index) * 10000, index12[n - 1].index)
            ELSE 10000)
      ELSE 0

\* lines 140-144: month-over-month change of the last two points, in hundredths of a percent
TrendMomPct(index12) ==
  LET n == Len(index12)
  IN  IF n >= 2 /\ index12[n - 1].index # 0
      THEN TruncDiv((index12[n].index - index12[n - 1].index) * 10000, index12[n - 1].index)
      ELSE 0

\* line 152: min(30, len(comps) * 4 + abs(trend_mom_pct) // 0.5)
SignalQuality(comps, trend_mom_pct) == Min(30, (Len(comps) * 4) + (Abs(trend_mom_pct) \div 50))

\* lines 155-160; the trend insight shows abs(trend) to one decimal
Insights(comps, trend_mom_pct) ==
  (IF comps # <<>> THEN << [kind |-> "comps", n |-> Len(comps), direction |-> "", pct |-> 0] >> ELSE <<>>)
  \o (IF trend_mom_pct # 0
      THEN << [kind |-> "trend", n |-> 0, direction |-> IF trend_mom_pct > 0 THEN "up" ELSE "down",
               pct |-> RoundDiv(Abs(trend_mom_pct), 10)] >>
      ELSE <<>>)

\* lines 135-190.  ok = FALSE: a median raised.  property_type_hint is "" for None.
Synthesize(addr_norm, property_type_hint, geo, comps, index12) ==
  LET comps_prices == [i \in 1..Len(comps) |-> comps[i].sale_price]
      comps_avg == IF comps_prices # <<>> THEN Some(TruncDiv(SumSeq(comps_prices), Len(comps_prices))) ELSE None
      trend_mom_pct == TrendMomPct(index12)
      beds_m  == MedianOr(comps, "beds", 3)
      baths_m == MedianOr(comps, "baths", 20)
      sqft_m  == MedianOr(comps, "living_sqft", 1200)
      property_type ==
        IF property_type_hint # "" THEN property_type_hint
        ELSE IF \E token \in UnitTokens : Contains(addr_norm, token) THEN "condo" ELSE "house"
  IN  [ok |-> beds_m.ok /\ baths_m.ok /\ sqft_m.ok,
       signal_quality |-> SignalQuality(comps, trend_mom_pct),
       features |->
         [address_norm |-> addr_norm,
          lat |-> geo.point.lat,
          lon |-> geo.point.lon,
          area_name |-> geo.area.name,
          area_code |-> geo.area.code,
          city |-> geo.city,
          province |-> geo.province,
          property_type |-> property_type,
          trend_mom_pct |-> trend_mom_pct,
          comps_count |-> Len(comps),
          comps_avg_price |-> IF comps_avg # None /\ comps_avg[1] # 0 THEN comps_avg[1] ELSE 0,
          beds_median |-> beds_m.value,
          baths_median |-> baths_m.value,
          sqft_median |-> sqft_m.value,
          insights |-> Insights(comps, trend_mom_pct)]]

(***************************************************************************)
(* src/app/models: the valuation strategies.  In an estimate the trend is  *)
(* in tenths of a percent (it is rounded to one decimal) and a factor      *)
(* weight in hundredths.                                                   *)
(***************************************************************************)
EstimateKeys == {"base", "low", "high", "confidence", "trend_mom_pct", "comps", "insights", "sparkline", "factors"}

\* MockModel.predict
MockModel_predict(features) ==
  LET address   == Get(features, "address_norm", <<"u","n","k","n","o","w","n">>)
      seed      == fnv1a_32(address)
      base_seed == 350000 + (seeded_rand(seed) * 1850000) \div RandDen
      comps_avg == Get(features, "comps_avg_price", base_seed)
      trend_pct == Get(features, "trend_mom_pct", 0)
      \* int(0.6*base_seed + 0.35*comps_avg*(1 + trend_pct/100.0) + 0.05*base_seed)
      blended   == TruncDiv(60 * base_seed + 35 * comps_avg + TruncDiv(35 * comps_avg, 10000) * trend_pct
                            + 5 * base_seed, 100)
      band      == money_band(blended, seed)
      comps     == Get(features, "comps_count", 4)
      given     == Get(features, "insights", <<>>)
  IN  [base |-> blended,
       low |-> band.low,
       high |-> band.high,
       confidence |-> 60 + Min(30, Max(0, Get(features, "signal_quality", 0))),
       trend_mom_pct |-> RoundDiv(trend_pct, 10),
       comps |-> comps,
       insights |-> IF given # <<>> THEN given
                    ELSE << [kind |-> IF comps >= 4 THEN "activity" ELSE "limited", n |-> 0, direction |-> "", pct |-> 0] >>,
       sparkline |-> sparkline(seed),
       factors |-> << <<"comps_weight", 45>>, <<"trend_weight", 20>>, <<"locality_weight", 20>>, <<"property_weight", 15>> >>]

\* SklearnRegressor.predict; y is self.model.predict(X)[0], the output of the pickled model
SklearnRegressor_predict(features, y) ==
  [base |-> y,
   low |-> TruncDiv(y * 92, 100),
   high |-> TruncDiv(y * 108, 100),
   confidence |-> Min(70 + Min(15, Max(0, Get(features, "comps_count", 0))), 95),
   trend_mom_pct |-> RoundDiv(Get(features, "trend_mom_pct", 0), 10),
   comps |-> Get(features, "comps_count", 0),
   insights |-> Get(features, "insights", <<>>),
   sparkline |-> Get(features, "sparkline", <<>>),
   factors |-> << <<"comps_weight", 40>>, <<"trend_weight", 25>>, <<"locality_weight", 20>>, <<"property_weight", 15>> >>]

\* LLMModel.predict
LLMModel_predict(features) ==
  LET out == MockModel_predict(features)
  IN  [out EXCEPT !.insights = @ \o << [kind |-> "llm", n |-> 0, direction |-> "", pct |-> 0] >>]

\* a hosted strategy that answers with the heuristic estimate when the call or the
\* parsing fails
OpenAIModel_predict_defaulting(features, api_key, model, reply) ==
  IF api_key = "" \/ model = "" THEN [ok |-> FALSE, error |-> "RuntimeError", missing |-> {}]
  ELSE IF ~reply.ok THEN [ok |-> TRUE, out |-> MockModel_predict(features)]
  ELSE IF EstimateKeys \ DOMAIN reply.data # {}
       THEN [ok |-> FALSE, error |-> "ValueError", missing |-> EstimateKeys \ DOMAIN reply.data]
  ELSE [ok |-> TRUE, out |-> reply.data]

\* OpenAIModel.predict.  reply is the outcome of the chat-completion call and of
\* json.loads (ok = FALSE: one of them raised), data the parsed object.
OpenAIModel_predict(features, api_key, model, reply) ==
  IF api_key = "" \/ model = "" THEN [ok |-> FALSE, error |-> "RuntimeError", missing |-> {}]
  ELSE IF ~reply.ok THEN [ok |-> FALSE, error |-> "RuntimeError", missing |-> {}]
  ELSE IF EstimateKeys \ DOMAIN reply.data # {}
       THEN [ok |-> FALSE, error |-> "ValueError", missing |-> EstimateKeys \ DOMAIN reply.data]
  ELSE [ok |-> TRUE, out |-> reply.data]

(***************************************************************************)
(* The serialized response.  A Python dict is an ordered list of           *)
(* <<key, value>> pairs.  json.dumps(payload, separators=(',',':')) is the *)
(* list of the members in order, each with the JSON text of its value: a   *)
(* bool becomes true/false, a nested dict the list of its members.         *)
(***************************************************************************)
HasKey(d, k) == \E i \in 1..Len(d) : d[i][1] = k

DictGet(d, k) == d[CHOOSE i \in 1..Len(d) : d[i][1] = k][2]

\* d[k] = v: in place when k is a key of d, appended otherwise
DictSet(d, k, v) ==
  IF HasKey(d, k) THEN [i \in 1..Len(d) |-> IF d[i][1] = k THEN <<k, v>> ELSE d[i]]
  ELSE Append(d, <<k, v>>)

NestedKeys == {"range", "factors"}

JsonMembers(d) == [i \in 1..Len(d) |-> [name |-> d[i][1], text |-> d[i][2]]]

JsonPairs(ms) == [i \in 1..Len(ms) |-> <<ms[i].name, ms[i].text>>]

JsonText(k, v) ==
  IF k = "cached" THEN (IF v THEN "true" ELSE "false")
  ELSE IF k \in NestedKeys THEN JsonMembers(v)
  ELSE v

JsonValue(k, t) ==
  IF k = "cached" THEN t = "true"
  ELSE IF k \in NestedKeys THEN JsonPairs(t)
  ELSE t

json_dumps(payload) == [i \in 1..Len(payload) |-> [name |-> payload[i][1], text |-> JsonText(payload[i][1], payload[i][2])]]

\* a parser whose dict does not keep the members in the order of the text
json_loads_unordered(text) ==
  [i \in 1..Len(text) |->
     <<text[Len(text) + 1 - i].name, JsonValue(text[Len(text) + 1 - i].name, text[Len(text) + 1 - i].text)>>]

json_loads(text) == [i \in 1..Len(text) |-> <<text[i].name, JsonValue(text[i].name, text[i].text)>>]

\* lines 196-209 of valuation_service.py
AssemblePayload(confirmed_address, currency, model_out) ==
  << <<"address", confirmed_address>>,
     <<"currency", currency>>,
     <<"valuation", model_out["base"]>>,
     <<"range", << <<"low", model_out["low"]>>, <<"high", model_out["high"]>> >> >>,
     <<"confidence", model_out["confidence"]>>,
     <<"trend_mom_pct", model_out["trend_mom_pct"]>>,
     <<"comparables_used", model_out["comps"]>>,
     <<"insights", model_out["insights"]>>,
     <<"sparkline_index_12m", model_out["sparkline"]>>,
     <<"factors", model_out["factors"]>>,
     <<"disclaimer", "This valuation is an estimate and not a financial appraisal.">>,
     <<"cached", FALSE>> >>

(***************************************************************************)
(* src/app/core/cache.py.  The store maps a key to [value, expires]; time  *)
(* is counted in minutes.                                                  *)
(***************************************************************************)
maxsize == 4096

Live(st, t) == {k \in DOMAIN st : t < st[k].expires}

Restrict(st, ks) == [k \in ks |-> st[k]]

\* Cache.get at time t: None for a missing or an expired key
CacheGet(st, key, t) == IF key \in DOMAIN st /\ t < st[key].expires THEN Some(st[key].value) ELSE None

\* a set that leaves the expiry of an entry it overwrites as it was
CacheSetKeepsExpiry(st, key, value, ttl, use_redis, t) ==
  [k \in DOMAIN st \cup {key} |->
     IF k = key THEN [value |-> value, expires |-> IF key \in DOMAIN st THEN st[key].expires ELSE t + ttl]
     ELSE st[k]]

\* Cache.set at time t: expired entries go; a full in-process store gives up the
\* entry that expires first; the entry is (re)written with a fresh TTL
CacheSet(st, key, value, ttl, use_redis, t) ==
  LET live  == Restrict(st, Live(st, t))
      full  == ~use_redis /\ key \notin DOMAIN live /\ Cardinality(DOMAIN live) >= maxsize
      first == CHOOSE k \in DOMAIN live : \A j \in DOMAIN live : live[k].expires <= live[j].expires
      kept  == IF full THEN Restrict(live, DOMAIN live \ {first}) ELSE live
  IN  [k \in DOMAIN kept \cup {key} |-> IF k = key THEN [value |-> value, expires |-> t + ttl] ELSE kept[k]]

(***************************************************************************)
(* Bounds of the model.                                                    *)
(***************************************************************************)
\* the clock stops here
MaxNow == 1

\* CACHE_TTL_SECONDS of the deployments of the model, in minutes
CacheTtl == 1

\* the length of a calendar day in minutes, scaled down
DayLength == 1

\* the requests of a run
Reqs == {1, 2}

\* the runs of rate_limit of a run
MaxChecks == 3

Checks == 1..MaxChecks

\* raw addresses: two spellings of one address, and another address with a unit prefix
RawAddresses == {<<"1"," ","A","b">>, <<" ","1"," "," ","a","B"," ">>, <<"5",","," ","9"," ","C","d">>}

(***************************************************************************)
(* src/app/core/config.py: the settings, read once when the process starts.*)
(***************************************************************************)
SettingsOf(provider, api_key, data, rpm, redis) ==
  [DEFAULT_CURRENCY |-> "CAD",
   CACHE_TTL_SECONDS |-> CacheTtl,
   MODEL_PROVIDER |-> provider,
   OPENAI_API_KEY |-> api_key,
   OPENAI_MODEL |-> "gpt-4o-mini",
   GEO_PROVIDER |-> data, GEO_BASE_URL |-> IF data = "http" THEN "http://geo" ELSE "",
   COMPS_PROVIDER |-> data, COMPS_BASE_URL |-> IF data = "http" THEN "http://comps" ELSE "",
   TRENDS_PROVIDER |-> data, TRENDS_BASE_URL |-> IF data = "http" THEN "http://trends" ELSE "",
   RATE_LIMIT_RPM |-> rpm,
   USE_REDIS |-> redis]

\* the deployments of the pipeline: the default one (heuristic strategy, everything
\* offline), then one that differs from it in the credential of the interpreters, one
\* in the providers, and one for each other strategy
Deployments ==
  {SettingsOf("mock", "", "mock", 60, FALSE),
   SettingsOf("mock", "sk", "mock", 60, FALSE),
   SettingsOf("mock", "", "http", 60, FALSE),
   SettingsOf("ml", "", "mock", 60, FALSE),
   SettingsOf("llm", "", "mock", 60, FALSE),
   SettingsOf("openai", "sk", "mock", 60, FALSE),
   SettingsOf("openai", "", "mock", 60, FALSE)}

\* the deployments of the limiter: RATE_LIMIT_RPM below, at and above 1, on either backend
RateDeployments ==
  {SettingsOf("mock", "", "mock", rpm, redis) : rpm \in (-1)..2, redis \in BOOLEAN}

(***************************************************************************)
(* What the collaborators outside the process can answer.                  *)
(***************************************************************************)
\* the interpreter of identify_property: it raises, or returns a candidates list
InterpreterReplies(raw) ==
  {[ok |-> FALSE, candidates |-> <<>>]}
  \cup {[ok |-> TRUE, candidates |-> cs] : cs \in
         {<<>>,
          << [address |-> raw, confidence |-> 70] >>,
          << [address |-> raw, confidence |-> 65] >>,
          << [address |-> raw] >>,
          << [confidence |-> 90] >>,
          << [address |-> raw, confidence |-> 90], [address |-> strip(raw), confidence |-> 80] >>}}

\* lines 78-92: the interpreter is asked only when no local rule matched and both
\* settings are set; NoReply stands for the call that is not made
NoReply == [ok |-> FALSE, candidates |-> <<>>]

\* a resolver that asks the interpreter before it looks at the local rules
InterpreterAskedFirst(raw, api_key, model) == api_key # "" /\ model # ""

InterpreterAsked(raw, api_key, model) == ~LocalRules(raw).matched /\ api_key # "" /\ model # ""

HttpGeocode_results ==
  {[ok |-> FALSE],
   [ok |-> TRUE, value |-> [point |-> [lat |-> 49283, lon |-> -123121],
                            area |-> [name |-> <<"K","i","t","s","i","l","a","n","o">>, code |-> None],
                            city |-> "Vancouver", province |-> "BC", country |-> "Canada"]]}

HttpSale(dist, price, beds) ==
  [distance_km |-> dist, sale_price |-> price, sale_date |-> 0, beds |-> beds,
   baths |-> Some(20), living_sqft |-> Some(1000), property_type |-> None]

HttpComps_results ==
  {[ok |-> FALSE],
   [ok |-> TRUE, value |-> <<>>],
   [ok |-> TRUE, value |-> << HttpSale(50, 800000, Some(3)), HttpSale(120, 900000, None) >>],
   [ok |-> TRUE, value |-> << HttpSale(50, 800000, None) >>]}

HttpPoint(m, idx) == [date |-> [today |-> 0, months_back |-> m], index |-> idx]

HttpTrends_results ==
  {[ok |-> FALSE],
   [ok |-> TRUE, value |-> <<>>],
   [ok |-> TRUE, value |-> << HttpPoint(1, 10000) >>],
   [ok |-> TRUE, value |-> << HttpPoint(2, 0), HttpPoint(1, 10250) >>],
   [ok |-> TRUE, value |-> << HttpPoint(2, 10000), HttpPoint(1, 10250) >>]}

\* self.model.predict(X)[0] of the pickled regressor
RegressorOutputs == {-200000, 800000}

HostedEstimate(base, low, high, confidence) ==
  [base |-> base, low |-> low, high |-> high, confidence |-> confidence, trend_mom_pct |-> 0,
   comps |-> 0, insights |-> <<>>, sparkline |-> <<>>, factors |-> <<>>]

\* the hosted interpreter of OpenAIModel: it raises, or returns a JSON object
HostedReplies ==
  {[ok |-> FALSE],
   [ok |-> TRUE, data |-> HostedEstimate(500000, 450000, 550000, 80)],
   [ok |-> TRUE, data |-> HostedEstimate(500000, 600000, 400000, 80)],
   [ok |-> TRUE, data |-> HostedEstimate(500000, 450000, 550000, 150)],
   [ok |-> TRUE, data |-> [base |-> 500000, low |-> 450000, high |-> 550000]]}

(***************************************************************************)
(* The state.                                                              *)
(***************************************************************************)
VARIABLES
  settings,     \* the settings of the process
  artifact_ok,  \* whether pickle.load of MODEL_PATH succeeds
  now,          \* the clock, in minutes
  store,        \* the cache
  pc,           \* where each request is
  req,          \* the request: method, address, if_none_match, and the requests answered before it arrived
  loc,          \* the locals of value_address, and the minutes of its cache.get and cache.set
  out,          \* what value_address returned: payload, from_cache, etag
  response,     \* what the handler answered: status, body, the ETag header
  log,          \* the calls each request made, in order
  rl,           \* the locals of each run of rate_limit
  rl_log,       \* the cache calls of the runs of rate_limit, in order
  inputs,       \* the raw addresses the clients of a run send
  callers,      \* who sends the requests that rate_limit checks: header and peer address
  ops           \* the calls made on the cache object directly, in order, with what they returned

vars == <<settings, artifact_ok, now, store, pc, req, loc, out, response, log, rl, rl_log, inputs, callers, ops>>

pipeline_vars == <<artifact_ok, pc, req, loc, out, response, log>>

limiter_vars == <<rl, rl_log>>

driver_vars == <<inputs, callers, ops>>

NoHeader == [kind |-> "absent", tag |-> weak_etag(<<>>)]

NoReq == [method |-> "", raw |-> <<>>, address |-> <<>>, if_none_match |-> NoHeader, constructed |-> FALSE,
          svc |-> "", after |-> {}]

NoLoc == [completion |-> None, candidates |-> <<>>, confirmed_address |-> <<>>, property_type_hint |-> "", addr_norm |-> <<>>,
          cache_key |-> <<>>, geo |-> None, comps |-> None, index12 |-> None, trend_mom_pct |-> None,
          features |-> None, reply |-> None, model_out |-> None, got_at |-> None, set_at |-> None]

NoOut == [payload |-> <<>>, from_cache |-> FALSE, etag |-> None, written |-> None]

NoResponse == [status |-> 0, body |-> None, etag_header |-> None]

today == now \div DayLength

(***************************************************************************)
(* src/app/routers/valuation.py and src/app/schemas.py: the two inbound    *)
(* operations.                                                             *)
(***************************************************************************)
\* ValuationRequest.address: strip_whitespace, min_length=4; then lines 22-23
PostAddress(raw) ==
  LET a == strip(raw)
  IN  IF Len(a) < 4 THEN [ok |-> FALSE, status |-> 422, address |-> a]
      ELSE IF strip(a) = <<>> THEN [ok |-> FALSE, status |-> 400, address |-> a]
      ELSE [ok |-> TRUE, status |-> 0, address |-> a]

\* Query(..., min_length=4)
GetAddress(raw) ==
  IF Len(raw) < 4 THEN [ok |-> FALSE, status |-> 422, address |-> raw]
  ELSE [ok |-> TRUE, status |-> 0, address |-> raw]

\* a construction that lets the failure of the load through
SelectModelNoFallback(s, loads) ==
  IF s.MODEL_PROVIDER = "ml" THEN (IF loads THEN "ml" ELSE "")
  ELSE IF s.MODEL_PROVIDER = "llm" THEN "llm"
  ELSE IF s.MODEL_PROVIDER = "openai" THEN (IF s.OPENAI_API_KEY # "" THEN "openai" ELSE "")
  ELSE "mock"

\* ValuationService.__init__, lines 26-39: the strategy; "" when the assert of line 36 fails
SelectModel(s, loads) ==
  IF s.MODEL_PROVIDER = "ml" THEN (IF loads THEN "ml" ELSE "mock")
  ELSE IF s.MODEL_PROVIDER = "llm" THEN "llm"
  ELSE IF s.MODEL_PROVIDER = "openai" THEN (IF s.OPENAI_API_KEY # "" THEN "openai" ELSE "")
  ELSE "mock"

\* what a client can send as if-none-match: nothing, an ETag that is not the current
\* one of the resource, the ETag that is
Validators(etag) ==
  {NoHeader, [kind |-> "etag", tag |-> weak_etag(<<>>)], [kind |-> "etag", tag |-> etag]}

\* the address of the runs in which the clients send one address only
OneAddress == {<<"1", " ", "A", "b">>}

\* the requests of a run in deployment s: two where every collaborator is in-process
\* and deterministic or where the clients send one address only, one where a
\* collaborator outside the process answers
MaxRequests(s) ==
  IF \/ s.MODEL_PROVIDER = "mock" /\ s.OPENAI_API_KEY = "" /\ s.GEO_PROVIDER = "mock"
     \/ inputs = OneAddress
  THEN 2 ELSE 1

Finish(r, status) ==
  /\ pc' = [pc EXCEPT ![r] = "done"]
  /\ response' = [response EXCEPT ![r] = [status |-> status, body |-> None, etag_header |-> None]]

\* a request arrives: its parameters are validated and its service is constructed.
\* Requests are numbered in the order of their arrival.  The if-none-match header is
\* bound where the handler reads it, at the end.
Receive(r, method, raw) ==
  /\ pc[r] = "idle"
  /\ r <= MaxRequests(settings)
  /\ \A q \in Reqs : q < r => pc[q] # "idle"
  /\ LET v   == IF method = "POST" THEN PostAddress(raw) ELSE GetAddress(raw)
         svc == SelectModel(settings, artifact_ok)
     IN  /\ req' = [req EXCEPT ![r] = [method |-> method, raw |-> raw, address |-> v.address,
                                        if_none_match |-> NoHeader, constructed |-> TRUE, svc |-> svc,
                                        after |-> {q \in Reqs : pc[q] = "done"}]]
         /\ IF svc = "" THEN Finish(r, 500)
            ELSE IF ~v.ok THEN Finish(r, v.status)
            ELSE /\ pc' = [pc EXCEPT ![r] = "resolve"]
                 /\ UNCHANGED response
  /\ UNCHANGED limiter_vars
  /\ UNCHANGED driver_vars
  /\ UNCHANGED <<settings, artifact_ok, now, store, loc, out, log>>

post_valuation(r) == \E raw \in inputs : Receive(r, "POST", raw)

get_valuation(r) == \E raw \in inputs : Receive(r, "GET", raw)

(***************************************************************************)
(* src/app/services/valuation_service.py: value_address, step by step.     *)
(* A request gives way to the others where the code awaits a collaborator  *)
(* or, in a deployment of several processes on one shared cache, between   *)
(* two cache calls.                                                        *)
(***************************************************************************)
\* 0.7, in hundredths
ConfidenceGate == 70

Logged(r, events) == log' = [log EXCEPT ![r] = @ \o events]

\* line 111: the address resolver
Identify(r) ==
  /\ pc[r] = "resolve"
  /\ \E reply \in (IF InterpreterAsked(req[r].address, settings.OPENAI_API_KEY, settings.OPENAI_MODEL)
                    THEN InterpreterReplies(req[r].address) ELSE {NoReply}) :
       loc' = [loc EXCEPT ![r].completion =
                 IF InterpreterAsked(req[r].address, settings.OPENAI_API_KEY, settings.OPENAI_MODEL)
                 THEN Some(reply) ELSE None,
                          ![r].candidates =
                 identify_property(req[r].address, settings.OPENAI_API_KEY, settings.OPENAI_MODEL, reply)]
  /\ pc' = [pc EXCEPT ![r] = "gate"]
  /\ UNCHANGED limiter_vars
  /\ UNCHANGED driver_vars
  /\ UNCHANGED <<settings, artifact_ok, now, store, req, out, response, log>>

\* a gate that turns the boundary away
GateAcceptsAbove(candidates) == ~(Len(candidates) # 1 \/ Get(candidates[1], "confidence", 0) <= ConfidenceGate)

\* line 112: the disambiguation gate
GateAccepts(candidates) == ~(Len(candidates) # 1 \/ Get(candidates[1], "confidence", 0) < ConfidenceGate)

\* a lookup that never takes the cached branch
TruthyNever(cached) == FALSE

\* "if cached:" - None and the empty string are falsy
Truthy(cached) == cached # None /\ cached[1] # <<>>

\* line 121
CacheKey(addr_norm) == <<"valuation:">> \o addr_norm

\* a hit whose ETag is taken after the cache flag is set
HitResultFlagged(cached) ==
  LET payload == DictSet(json_loads(cached), "cached", TRUE)
  IN  [payload |-> payload, from_cache |-> TRUE, etag |-> Some(weak_etag(json_dumps(payload))), written |-> None]

\* lines 124-126: the result of a hit
HitResult(cached) ==
  LET payload == json_loads(cached)
  IN  [payload |-> payload, from_cache |-> TRUE, etag |-> Some(weak_etag(json_dumps(payload))), written |-> None]

\* lines 112-129: the gate, the cache lookup and, on a miss, the geocode call
Lookup(r) ==
  /\ pc[r] = "gate"
  /\ LET candidates == loc[r].candidates
     IN  IF ~GateAccepts(candidates)
         THEN /\ Finish(r, 400)
              /\ UNCHANGED <<loc, out, log>>
         ELSE IF "address" \notin DOMAIN candidates[1]
         THEN /\ Finish(r, 500)
              /\ UNCHANGED <<loc, out, log>>
         ELSE LET confirmed_address == candidates[1].address
                  addr_norm == normalize_address(confirmed_address)
                  cache_key == CacheKey(addr_norm)
                  cached    == CacheGet(store, cache_key, now)
              IN  /\ loc' = [loc EXCEPT ![r].confirmed_address = confirmed_address,
                                        ![r].property_type_hint = Get(candidates[1], "property_type", ""),
                                        ![r].addr_norm = addr_norm,
                                        ![r].cache_key = cache_key,
                                        ![r].got_at = Some(now)]
                  /\ IF Truthy(cached)
                     THEN /\ out' = [out EXCEPT ![r] = HitResult(cached[1])]
                          /\ pc' = [pc EXCEPT ![r] = "respond"]
                          /\ Logged(r, <<"cache_get">>)
                     ELSE /\ pc' = [pc EXCEPT ![r] = "geo"]
                          /\ Logged(r, <<"cache_get", "geo_call">>)
                          /\ UNCHANGED out
                  /\ UNCHANGED response
  /\ UNCHANGED limiter_vars
  /\ UNCHANGED driver_vars
  /\ UNCHANGED <<settings, artifact_ok, now, store, req>>

\* geocode_client(), comps_client(), trends_client(): what the selected client can return
GeoOutcomes(s, addr_norm) ==
  IF s.GEO_PROVIDER = "http" /\ s.GEO_BASE_URL # "" THEN HttpGeocode_results
  ELSE {[ok |-> TRUE, value |-> MockGeocode_resolve(addr_norm)]}

CompsOutcomes(s, point, day) ==
  IF s.COMPS_PROVIDER = "http" /\ s.COMPS_BASE_URL # "" THEN HttpComps_results
  ELSE {[ok |-> TRUE, value |-> MockComps_recent_sales(point, 2, 90, 6, day)]}

TrendsOutcomes(s, area, day) ==
  IF s.TRENDS_PROVIDER = "http" /\ s.TRENDS_BASE_URL # "" THEN HttpTrends_results
  ELSE {[ok |-> TRUE, value |-> MockTrends_price_index(area, 12, day)]}

\* a pipeline that remembers a failed geocode call under the key of the address
GeoReturnCachingFailure(r) ==
  /\ pc[r] = "geo"
  /\ \E o \in GeoOutcomes(settings, loc[r].addr_norm) :
       IF o.ok
       THEN /\ loc' = [loc EXCEPT ![r].geo = Some(o.value)]
            /\ pc' = [pc EXCEPT ![r] = "comps"]
            /\ Logged(r, <<"geo_ret", "comps_call">>)
            /\ UNCHANGED <<response, store>>
       ELSE /\ Finish(r, 500)
            /\ Logged(r, <<"geo_err">>)
            /\ store' = CacheSet(store, loc[r].cache_key, json_dumps(<< <<"error", "geocode">> >>),
                                 settings.CACHE_TTL_SECONDS, settings.USE_REDIS, now)
            /\ UNCHANGED loc
  /\ UNCHANGED limiter_vars
  /\ UNCHANGED driver_vars
  /\ UNCHANGED <<settings, artifact_ok, now, req, out>>

\* a pipeline that asks for the comparables even when the geocode call failed
GeoReturnLenient(r) ==
  /\ pc[r] = "geo"
  /\ \E o \in GeoOutcomes(settings, loc[r].addr_norm) :
       /\ loc' = [loc EXCEPT ![r].geo = Some(IF o.ok THEN o.value ELSE MockGeocode_resolve(loc[r].addr_norm))]
       /\ pc' = [pc EXCEPT ![r] = "comps"]
       /\ Logged(r, IF o.ok THEN <<"geo_ret", "comps_call">> ELSE <<"geo_err", "comps_call">>)
       /\ UNCHANGED response
  /\ UNCHANGED limiter_vars
  /\ UNCHANGED driver_vars
  /\ UNCHANGED <<settings, artifact_ok, now, store, req, out>>

\* line 129 returns (or raises); lines 132-134 issue the comparables call
GeoReturn(r) ==
  /\ pc[r] = "geo"
  /\ \E o \in GeoOutcomes(settings, loc[r].addr_norm) :
       IF o.ok
       THEN /\ loc' = [loc EXCEPT ![r].geo = Some(o.value)]
            /\ pc' = [pc EXCEPT ![r] = "comps"]
            /\ Logged(r, <<"geo_ret", "comps_call">>)
            /\ UNCHANGED response
       ELSE /\ Finish(r, 500)
            /\ Logged(r, <<"geo_err">>)
            /\ UNCHANGED loc
  /\ UNCHANGED limiter_vars
  /\ UNCHANGED driver_vars
  /\ UNCHANGED <<settings, artifact_ok, now, store, req, out>>

\* a pipeline that asks for the comparables a second time when the first call failed
CompsReturnRetrying(r) ==
  /\ pc[r] = "comps"
  /\ \E o \in CompsOutcomes(settings, loc[r].geo[1].point, today) :
       IF o.ok
       THEN /\ loc' = [loc EXCEPT ![r].comps = Some(o.value)]
            /\ pc' = [pc EXCEPT ![r] = "trends"]
            /\ Logged(r, <<"comps_ret", "trends_call">>)
            /\ UNCHANGED response
       ELSE IF "comps_err" \notin Range(log[r])
       THEN /\ Logged(r, <<"comps_err", "comps_call">>)
            /\ UNCHANGED <<pc, response, loc>>
       ELSE /\ Finish(r, 500)
            /\ Logged(r, <<"comps_err">>)
            /\ loc' = [loc EXCEPT ![r].geo = None]
  /\ UNCHANGED limiter_vars
  /\ UNCHANGED driver_vars
  /\ UNCHANGED <<settings, artifact_ok, now, store, req, out>>

\* lines 132-134 return (or raise); line 139 issues the trend call
CompsReturn(r) ==
  /\ pc[r] = "comps"
  /\ \E o \in CompsOutcomes(settings, loc[r].geo[1].point, today) :
       IF o.ok
       THEN /\ loc' = [loc EXCEPT ![r].comps = Some(o.value)]
            /\ pc' = [pc EXCEPT ![r] = "trends"]
            /\ Logged(r, <<"comps_ret", "trends_call">>)
            /\ UNCHANGED response
       ELSE /\ Finish(r, 500)
            /\ Logged(r, <<"comps_err">>)
            /\ loc' = [loc EXCEPT ![r].geo = None]
  /\ UNCHANGED limiter_vars
  /\ UNCHANGED driver_vars
  /\ UNCHANGED <<settings, artifact_ok, now, store, req, out>>

\* line 193: self.model.predict(features), for the strategy the service was built with;
\* reply is what the hosted interpreter answered, when the strategy asked it
PredictOutcomes(svc, s, features) ==
  IF svc = "ml"
  THEN {[reply |-> None, result |-> [ok |-> TRUE, out |-> SklearnRegressor_predict(features, y)]] : y \in RegressorOutputs}
  ELSE IF svc = "llm" THEN {[reply |-> None, result |-> [ok |-> TRUE, out |-> LLMModel_predict(features)]]}
  ELSE IF svc = "openai"
       THEN {[reply |-> Some(reply), result |-> OpenAIModel_predict(features, s.OPENAI_API_KEY, s.OPENAI_MODEL, reply)] :
               reply \in HostedReplies}
  ELSE {[reply |-> None, result |-> [ok |-> TRUE, out |-> MockModel_predict(features)]]}

\* a miss whose payload carries the minute it was computed in
MissResultStamped(confirmed_address, currency, model_out) ==
  LET payload == DictSet(AssemblePayload(confirmed_address, currency, model_out), "generated", now)
  IN  [payload |-> payload, from_cache |-> FALSE, etag |-> Some(weak_etag(json_dumps(payload))),
       written |-> Some(json_dumps(payload))]

\* lines 196-214: the result of a miss
MissResult(confirmed_address, currency, model_out) ==
  LET payload == AssemblePayload(confirmed_address, currency, model_out)
  IN  [payload |-> payload, from_cache |-> FALSE, etag |-> Some(weak_etag(json_dumps(payload))),
       written |-> Some(json_dumps(payload))]

\* line 139 returns (or raises); lines 140-214: features, strategy, response, cache store
TrendsReturn(r) ==
  /\ pc[r] = "trends"
  /\ \E o \in TrendsOutcomes(settings, loc[r].geo[1].area, today) :
       IF ~o.ok
       THEN /\ Finish(r, 500)
            /\ Logged(r, <<"trends_err">>)
            /\ loc' = [loc EXCEPT ![r].geo = None]
            /\ UNCHANGED <<out, store>>
       ELSE LET syn == Synthesize(loc[r].addr_norm, loc[r].property_type_hint, loc[r].geo[1], loc[r].comps[1], o.value)
            IN  /\ IF ~syn.ok
                   THEN /\ Finish(r, 500)
                        /\ Logged(r, <<"trends_ret", "features_err">>)
                        /\ loc' = [loc EXCEPT ![r].geo = None, ![r].index12 = Some(o.value),
                                              ![r].trend_mom_pct = Some(TrendMomPct(o.value))]
                        /\ UNCHANGED <<out, store>>
                   ELSE \E p \in PredictOutcomes(req[r].svc, settings, syn.features) :
                          IF ~p.result.ok
                          THEN /\ Finish(r, 500)
                               /\ Logged(r, <<"trends_ret", "predict_err">>)
                               /\ loc' = [loc EXCEPT ![r].geo = None, ![r].index12 = Some(o.value),
                                                     ![r].trend_mom_pct = Some(syn.features.trend_mom_pct),
                                                     ![r].features = Some(syn.features),
                                                     ![r].reply = p.reply,
                                                     ![r].model_out = Some(p.result)]
                               /\ UNCHANGED <<out, store>>
                          ELSE LET res == MissResult(loc[r].confirmed_address, settings.DEFAULT_CURRENCY, p.result.out)
                               IN  /\ out' = [out EXCEPT ![r] = res]
                                   /\ loc' = [loc EXCEPT ![r].geo = None, ![r].index12 = Some(o.value),
                                                         ![r].trend_mom_pct = Some(syn.features.trend_mom_pct),
                                                         ![r].features = Some(syn.features),
                                                         ![r].reply = p.reply,
                                                         ![r].model_out = Some(p.result),
                                                         ![r].set_at = Some(now)]
                                   /\ store' = CacheSet(store, loc[r].cache_key, res.written[1],
                                                        settings.CACHE_TTL_SECONDS, settings.USE_REDIS, now)
                                   /\ pc' = [pc EXCEPT ![r] = "respond"]
                                   /\ Logged(r, <<"trends_ret", "predict", "cache_set">>)
                                   /\ UNCHANGED response
  /\ UNCHANGED limiter_vars
  /\ UNCHANGED driver_vars
  /\ UNCHANGED <<settings, artifact_ok, now, req>>

(***************************************************************************)
(* src/app/routers/valuation.py: the end of the two handlers.              *)
(***************************************************************************)
\* a comparison that takes any validator for the current one
MatchesAnyValidator(if_none_match, etag) == if_none_match.kind \notin {"absent", "empty"}

\* "if if_none_match and if_none_match == etag"
Matches(if_none_match, etag) ==
  /\ if_none_match.kind \notin {"absent", "empty"}
  /\ if_none_match.tag = etag

\* lines 29-32 and 48-51: what the handler returns, and the header it sets
FullResponse(o) ==
  LET body == DictSet(DictSet(o.payload, "cached", o.from_cache), "etag", o.etag[1])
  IN  [status |-> 200, body |-> Some(body), etag_header |-> o.etag]

\* post_valuation, lines 26-32
PostAnswer(o, if_none_match) ==
  IF Matches(if_none_match, o.etag[1]) THEN [status |-> 304, body |-> None, etag_header |-> None]
  ELSE FullResponse(o)

\* get_valuation, lines 45-51
GetAnswer(o, if_none_match) ==
  IF Matches(if_none_match, o.etag[1]) THEN [status |-> 304, body |-> None, etag_header |-> None]
  ELSE FullResponse(o)

Respond(r) ==
  /\ pc[r] = "respond"
  /\ \E inm \in Validators(out[r].etag[1]) :
       /\ req' = [req EXCEPT ![r].if_none_match = inm]
       /\ response' = [response EXCEPT ![r] =
                         IF req[r].method = "POST" THEN PostAnswer(out[r], inm) ELSE GetAnswer(out[r], inm)]
  /\ pc' = [pc EXCEPT ![r] = "done"]
  /\ UNCHANGED limiter_vars
  /\ UNCHANGED driver_vars
  /\ UNCHANGED <<settings, artifact_ok, now, store, loc, out, log>>

(***************************************************************************)
(* src/app/core/security.py: rate_limit.  It is a synchronous dependency,  *)
(* run for every request on a worker thread (and, on Redis, in every       *)
(* process that shares the backend), so other runs can act between its     *)
(* cache.get and its cache.set.                                            *)
(***************************************************************************)
\* who sends a request: the x-api-key header and the peer address, each possibly absent
RateClients ==
  {[x_api_key |-> Some(<<"k","1">>), client |-> Some(<<"1","0",".","0",".","0",".","1">>)],
   [x_api_key |-> None, client |-> None]}

\* line 28: f"rate:{api_key}:{client_ip}:{minute_bucket}"
RateKey(api_key, client_ip, minute_bucket) ==
  <<"r","a","t","e",":">> \o api_key \o <<":">> \o client_ip \o <<":">> \o NatToStr(minute_bucket)

\* int(current) succeeds on a decimal numeral
IsNumeral(text) == text # <<>> /\ \A i \in 1..Len(text) : IsDigit(text[i])

RECURSIVE StrToNat(_)
StrToNat(text) ==
  IF text = <<>> THEN 0
  ELSE 10 * StrToNat(SubSeq(text, 1, Len(text) - 1)) + (IndexIn(text[Len(text)], DigitChars) - 1)

\* lines 35-38: int(current) + 1, or 1 when int raises ValueError
RateCount(current) == IF IsNumeral(current) THEN StrToNat(current) + 1 ELSE 1

\* a limiter that counts the requests it rejects
RateOutcomeCountingRejections(current, rpm) ==
  IF current = None THEN [allowed |-> TRUE, value |-> Some(<<"1">>)]
  ELSE IF RateCount(current[1]) > rpm THEN [allowed |-> FALSE, value |-> Some(NatToStr(RateCount(current[1])))]
  ELSE [allowed |-> TRUE, value |-> Some(NatToStr(RateCount(current[1])))]

\* a limiter that rejects one request early
RateOutcomeOffByOne(current, rpm) ==
  IF current = None THEN [allowed |-> TRUE, value |-> Some(<<"1">>)]
  ELSE IF RateCount(current[1]) >= rpm THEN [allowed |-> FALSE, value |-> None]
  ELSE [allowed |-> TRUE, value |-> Some(NatToStr(RateCount(current[1])))]

\* lines 32-41: what a run decides from the value it read, and what it writes
RateOutcome(current, rpm) ==
  IF current = None THEN [allowed |-> TRUE, value |-> Some(<<"1">>)]
  ELSE IF RateCount(current[1]) > rpm THEN [allowed |-> FALSE, value |-> None]
  ELSE [allowed |-> TRUE, value |-> Some(NatToStr(RateCount(current[1])))]

NoCheck == [pc |-> "idle", who |-> None, at |-> 0, key |-> <<>>, current |-> None, result |-> "", written |-> None]

\* lines 24-31: the key of the caller in the current minute, and cache.get
rate_limit_get(c) ==
  /\ rl[c].pc = "idle"
  /\ \A q \in Checks : q < c => rl[q].pc # "idle"
  /\ \E who \in callers :
       LET client_ip     == IF who.client # None THEN who.client[1] ELSE <<"u","n","k","n","o","w","n">>
           api_key       == IF who.x_api_key # None /\ who.x_api_key[1] # <<>> THEN who.x_api_key[1] ELSE <<"a","n","o","n">>
           minute_bucket == now
           key           == RateKey(api_key, client_ip, minute_bucket)
       IN  rl' = [rl EXCEPT ![c] = [NoCheck EXCEPT !.pc = "set", !.who = Some(who), !.at = minute_bucket,
                                                   !.key = key, !.current = CacheGet(store, key, now)]]
  /\ rl_log' = Append(rl_log, <<c, "get">>)
  /\ UNCHANGED <<settings, now, store>>
  /\ UNCHANGED pipeline_vars
  /\ UNCHANGED driver_vars

\* lines 32-41: the decision, and cache.set unless the run is rejected
rate_limit_set(c) ==
  /\ rl[c].pc = "set"
  /\ LET rpm == Max(1, settings.RATE_LIMIT_RPM)
         o   == RateOutcome(rl[c].current, rpm)
     IN  /\ rl' = [rl EXCEPT ![c].pc = "done",
                             ![c].result = IF o.allowed THEN "allowed" ELSE "rejected",
                             ![c].written = o.value]
         /\ IF o.value # None
            THEN store' = CacheSet(store, rl[c].key, o.value[1], settings.CACHE_TTL_SECONDS, settings.USE_REDIS, now)
            ELSE UNCHANGED store
  /\ rl_log' = Append(rl_log, <<c, "end">>)
  /\ UNCHANGED <<settings, now>>
  /\ UNCHANGED pipeline_vars
  /\ UNCHANGED driver_vars

\* a minute passes
Tick ==
  /\ now < MaxNow
  /\ now' = now + 1
  /\ UNCHANGED limiter_vars
  /\ UNCHANGED driver_vars
  /\ UNCHANGED <<settings, artifact_ok, store, pc, req, loc, out, response, log>>

EmptyStore == [k \in {} |-> None]

\* nothing has happened yet
Fresh ==
  /\ now = 0
  /\ store = EmptyStore
  /\ pc = [r \in Reqs |-> "idle"]
  /\ req = [r \in Reqs |-> NoReq]
  /\ loc = [r \in Reqs |-> NoLoc]
  /\ out = [r \in Reqs |-> NoOut]
  /\ response = [r \in Reqs |-> NoResponse]
  /\ log = [r \in Reqs |-> <<>>]
  /\ rl = [c \in Checks |-> NoCheck]
  /\ rl_log = <<>>
  /\ ops = <<>>

Init ==
  /\ settings \in Deployments
  /\ artifact_ok \in (IF settings.MODEL_PROVIDER = "ml" THEN BOOLEAN ELSE {TRUE})
  /\ inputs = RawAddresses
  /\ callers = RateClients
  /\ Fresh

Next ==
  \/ \E r \in Reqs : post_valuation(r)
  \/ \E r \in Reqs : get_valuation(r)
  \/ \E r \in Reqs : Identify(r)
  \/ \E r \in Reqs : Lookup(r)
  \/ \E r \in Reqs : GeoReturn(r)
  \/ \E r \in Reqs : CompsReturn(r)
  \/ \E r \in Reqs : TrendsReturn(r)
  \/ \E r \in Reqs : Respond(r)
  \/ Tick

Spec == Init /\ [][Next]_vars

(***************************************************************************)
(* The limiter on its own: runs of rate_limit on the shared cache.         *)
(***************************************************************************)
InitRate ==
  /\ settings \in RateDeployments
  /\ artifact_ok = TRUE
  /\ inputs = RawAddresses
  /\ callers = RateClients
  /\ Fresh

NextRate ==
  \/ \E c \in Checks : rate_limit_get(c)
  \/ \E c \in Checks : rate_limit_set(c)
  \/ Tick

SpecRate == InitRate /\ [][NextRate]_vars

(***************************************************************************)
(* The limiter under callers whose credentials and addresses hold the      *)
(* separator of the key: a client on an IPv4-mapped IPv6 address with      *)
(* credential "k", a client on the IPv4 address with credential            *)
(* "k:::ffff", and a client on the IPv4 address with no credential.        *)
(***************************************************************************)
IdentityClients ==
  {[x_api_key |-> Some(<<"k">>), client |-> Some(<<":",":","f","f","f","f",":","1",".","2",".","3",".","4">>)],
   [x_api_key |-> Some(<<"k",":",":",":","f","f","f","f">>), client |-> Some(<<"1",".","2",".","3",".","4">>)],
   [x_api_key |-> None, client |-> Some(<<"1",".","2",".","3",".","4">>)]}

\* RATE_LIMIT_RPM of 1 and of 2, on the in-process backend
IdentityDeployments == {SettingsOf("mock", "", "mock", rpm, FALSE) : rpm \in 1..2}

InitIdentity ==
  /\ settings \in IdentityDeployments
  /\ artifact_ok = TRUE
  /\ inputs = RawAddresses
  /\ callers = IdentityClients
  /\ Fresh

SpecIdentity == InitIdentity /\ [][NextRate]_vars

(***************************************************************************)
(* src/app/core/cache.py: the cache object on its own, under calls of      *)
(* Cache.set and Cache.get on either backend.                              *)
(***************************************************************************)
\* the calls of a run
MaxOps == 4

CacheKeys == {<<"k", "1">>, <<"k", "2">>}

CacheValues == {<<"a">>, <<"b">>}

\* line 19: USE_REDIS selects the backend
CacheDeployments == {SettingsOf("mock", "", "mock", 60, redis) : redis \in BOOLEAN}

\* Cache.set(key, value)
Cache_set(key, value) ==
  /\ Len(ops) < MaxOps
  /\ store' = CacheSet(store, key, value, settings.CACHE_TTL_SECONDS, settings.USE_REDIS, now)
  /\ ops' = Append(ops, [op |-> "set", key |-> key, value |-> Some(value), at |-> now])
  /\ UNCHANGED <<settings, now, inputs, callers>>
  /\ UNCHANGED pipeline_vars
  /\ UNCHANGED limiter_vars

\* Cache.get(key)
Cache_get(key) ==
  /\ Len(ops) < MaxOps
  /\ ops' = Append(ops, [op |-> "get", key |-> key, value |-> CacheGet(store, key, now), at |-> now])
  /\ UNCHANGED <<settings, now, store, inputs, callers>>
  /\ UNCHANGED pipeline_vars
  /\ UNCHANGED limiter_vars

InitCache ==
  /\ settings \in CacheDeployments
  /\ artifact_ok = TRUE
  /\ inputs = RawAddresses
  /\ callers = RateClients
  /\ Fresh

NextCache ==
  \/ \E key \in CacheKeys, value \in CacheValues : Cache_set(key, value)
  \/ \E key \in CacheKeys : Cache_get(key)
  \/ Tick

SpecCache == InitCache /\ [][NextCache]_vars

(***************************************************************************)
(* The two inbound operations under addresses at the edge of validation:   *)
(* empty, blank, too short, and a valid one.                               *)
(***************************************************************************)
EdgeAddresses == {<<>>, <<" ", " ", " ", " ">>, <<"a", "b">>, <<"1", " ", "A", "b">>}

InitEdge ==
  /\ settings = SettingsOf("mock", "", "mock", 60, FALSE)
  /\ artifact_ok = TRUE
  /\ inputs = EdgeAddresses
  /\ callers = RateClients
  /\ Fresh

SpecEdge == InitEdge /\ [][Next]_vars

(***************************************************************************)
(* The regression deployment while the file at MODEL_PATH is put in place  *)
(* or taken away between requests.                                         *)
(***************************************************************************)
\* src/app/models/ml_model.py, lines 13-14: whether open and pickle.load succeed
\* depends on the file system at the moment of the call
ArtifactChange ==
  /\ settings.MODEL_PROVIDER = "ml"
  /\ artifact_ok' = ~artifact_ok
  /\ UNCHANGED limiter_vars
  /\ UNCHANGED driver_vars
  /\ UNCHANGED <<settings, now, store, pc, req, loc, out, response, log>>

InitArtifact ==
  /\ settings = SettingsOf("ml", "", "mock", 60, FALSE)
  /\ artifact_ok \in BOOLEAN
  /\ inputs = OneAddress
  /\ callers = RateClients
  /\ Fresh

NextArtifact ==
  \/ Next
  \/ ArtifactChange

SpecArtifact == InitArtifact /\ [][NextArtifact]_vars

(***************************************************************************)
(* Two requests for one address where a request can fail: at the gate, in  *)
(* a provider call, in feature synthesis or in the strategy.               *)
(***************************************************************************)
\* a deployment whose providers are network-backed, and one with the hosted strategy
\* and the interpreter of the resolver
FailureDeployments ==
  {SettingsOf("mock", "", "http", 60, FALSE),
   SettingsOf("openai", "sk", "mock", 60, FALSE)}

InitFailure ==
  /\ settings \in FailureDeployments
  /\ artifact_ok = TRUE
  /\ inputs = OneAddress
  /\ callers = RateClients
  /\ Fresh

SpecFailure == InitFailure /\ [][Next]_vars

(***************************************************************************)
(* The address resolver under addresses with and without unit indicators,  *)
(* with and without the settings of the interpreter.                       *)
(***************************************************************************)
\* a unit number in front, a # token, a unit word, a unit number in front together with
\* a # token, no indicator, and nothing but a unit word
ResolverAddresses ==
  {<<"5",","," ","9"," ","C","d">>,
   <<"9"," ","C"," ","#","2">>,
   <<"9"," ","a","p","t"," ","2">>,
   <<"5",","," ","9"," ","#","2">>,
   <<"1"," ","A","b">>,
   <<"u","n","i","t"," ","5">>}

\* OPENAI_API_KEY and OPENAI_MODEL both set, the model identifier missing, the
\* credential missing
ResolverDeployments ==
  {SettingsOf("mock", "sk", "mock", 60, FALSE),
   [SettingsOf("mock", "sk", "mock", 60, FALSE) EXCEPT !.OPENAI_MODEL = ""],
   [SettingsOf("mock", "", "http", 60, FALSE) EXCEPT !.COMPS_PROVIDER = "mock", !.TRENDS_PROVIDER = "mock"]}

InitResolve ==
  /\ settings \in ResolverDeployments
  /\ artifact_ok = TRUE
  /\ inputs = ResolverAddresses
  /\ callers = RateClients
  /\ Fresh

SpecResolve == InitResolve /\ [][Next]_vars

(***************************************************************************)
(* The claims.  A request has passed the gate when its cache key is set.   *)
(***************************************************************************)
\* C1 (cache coherence): a request that passes the gate uses the key "valuation:" + its
\* confirmed address trimmed, lower-cased and with whitespace collapsed, so two requests
\* whose confirmed addresses normalize alike use one key; when another request of that
\* key has completed a miss and the entry it wrote has not expired, the request is served
\* from the cache, and a payload it returns reports cached = true.
C1_CacheCoherence ==
  [][\A r \in Reqs :
       /\ (pc[r] = "gate" /\ pc'[r] \in {"geo", "respond"}) =>
            /\ loc'[r].cache_key = <<"valuation:">> \o join(split(lower(strip(loc'[r].confirmed_address))))
            /\ \A q \in Reqs \ {r} :
                 (/\ loc[q].cache_key # <<>>
                  /\ join(split(lower(strip(loc[q].confirmed_address))))
                       = join(split(lower(strip(loc'[r].confirmed_address)))))
                 => /\ loc[q].cache_key = loc'[r].cache_key
                    /\ (/\ out[q].written # None
                        /\ loc[q].cache_key \in DOMAIN store
                        /\ now < store[loc[q].cache_key].expires)
                       => (out'[r].from_cache /\ pc'[r] = "respond")
       /\ (pc[r] = "respond" /\ pc'[r] = "done" /\ out[r].from_cache /\ response'[r].body # None)
            => DictGet(response'[r].body[1], "cached") = TRUE]_vars

\* C1, witness: two spellings of one address; the first request computed and wrote the
\* entry, the second was served from it and answered cached = true
C1_Witness ==
  \E q, r \in Reqs :
    /\ q # r
    /\ req[q].address # req[r].address
    /\ loc[q].cache_key = loc[r].cache_key
    /\ out[q].written # None
    /\ q \in req[r].after
    /\ out[r].from_cache
    /\ response[r].status = 200
    /\ DictGet(response[r].body[1], "cached") = TRUE

\* C2 (a hit is local): when the lookup of a request finds an entry under its key, the
\* request goes straight to its answer: it has made no call but the cache read, it makes
\* none afterwards (no geocode, comparables, trend or strategy call), and no step of it
\* writes the cache.
C2_HitCallsNothing ==
  [][\A r \in Reqs :
       /\ (/\ pc[r] = "gate" /\ pc'[r] \in {"geo", "respond"}
           /\ CacheGet(store, loc'[r].cache_key, now) # None)
            => (pc'[r] = "respond" /\ out'[r].from_cache /\ log'[r] = <<"cache_get">> /\ store' = store)
       /\ out[r].from_cache
            => (log'[r] = <<"cache_get">> /\ out'[r].written = None /\ (pc'[r] # pc[r] => store' = store))]_vars

\* C2, witness: a request served from the cache has been answered
C2_Witness ==
  \E r \in Reqs : out[r].from_cache /\ pc[r] = "done" /\ response[r].status = 200 /\ log[r] = <<"cache_get">>

\* C3 as stated (determinism): with the heuristic strategy and the offline providers, two
\* successive estimate calls with the same address and no cache expiry in between yield
\* an identical response, every field including the cache flag, and an identical ETag.
C3_IdenticalResponses ==
  \A q, r \in Reqs :
    (/\ q \in req[r].after /\ pc[r] = "done"
     /\ req[q].svc = "mock" /\ req[r].svc = "mock"
     /\ settings.GEO_PROVIDER = "mock" /\ settings.COMPS_PROVIDER = "mock" /\ settings.TRENDS_PROVIDER = "mock"
     /\ req[q].address = req[r].address
     /\ response[q].status = 200 /\ response[r].status = 200
     /\ loc[q].set_at # None /\ loc[r].got_at[1] < loc[q].set_at[1] + settings.CACHE_TTL_SECONDS)
    => /\ response[q].body = response[r].body
       /\ response[q].etag_header = response[r].etag_header

\* C3 as amended: such two calls yield responses that are identical in every field
\* except the cache flag, which is the served-from-cache flag of each call and is true
\* on the second, and an identical ETag, in the payload and in the header.
C3_IdenticalButCacheFlag ==
  \A q, r \in Reqs :
    (/\ q \in req[r].after /\ pc[r] = "done"
     /\ req[q].svc = "mock" /\ req[r].svc = "mock"
     /\ settings.GEO_PROVIDER = "mock" /\ settings.COMPS_PROVIDER = "mock" /\ settings.TRENDS_PROVIDER = "mock"
     /\ req[q].address = req[r].address
     /\ response[q].status = 200 /\ response[r].status = 200
     /\ loc[q].set_at # None /\ loc[r].got_at[1] < loc[q].set_at[1] + settings.CACHE_TTL_SECONDS)
    => /\ DictSet(response[q].body[1], "cached", TRUE) = DictSet(response[r].body[1], "cached", TRUE)
       /\ DictGet(response[q].body[1], "cached") = out[q].from_cache
       /\ DictGet(response[r].body[1], "cached") = TRUE
       /\ DictGet(response[q].body[1], "etag") = DictGet(response[r].body[1], "etag")
       /\ response[q].etag_header = response[r].etag_header

\* C3, witness: a call that computed, then a call with the same address that was
\* answered from the entry, both with a full response
C3_Witness ==
  \E q, r \in Reqs :
    /\ q \in req[r].after /\ pc[r] = "done"
    /\ req[q].svc = "mock" /\ settings.GEO_PROVIDER = "mock"
    /\ req[q].address = req[r].address
    /\ response[q].status = 200 /\ response[r].status = 200
    /\ loc[q].set_at # None /\ loc[r].got_at[1] < loc[q].set_at[1] + settings.CACHE_TTL_SECONDS
    /\ ~out[q].from_cache /\ out[r].from_cache

C5_DisambiguationGate ==
  [][\A r \in Reqs :
       (pc[r] = "gate" /\ pc'[r] # "gate") =>
         LET cs == loc[r].candidates
             one == /\ Len(cs) = 1
                    /\ "confidence" \in DOMAIN cs[1]
                    /\ cs[1].confidence >= 70
         IN  /\ one <=> ~(pc'[r] = "done" /\ response'[r].status = 400)
             /\ ~one => /\ pc'[r] = "done" /\ response'[r].status = 400
                        /\ log'[r] = <<>> /\ store' = store /\ out'[r] = NoOut]_vars

\* C5, witness: the resolver returned one candidate at exactly 0.7 and the request was
\* valued and answered
C5_Witness ==
  \E r \in Reqs :
    /\ Len(loc[r].candidates) = 1
    /\ "confidence" \in DOMAIN loc[r].candidates[1]
    /\ loc[r].candidates[1].confidence = 70
    /\ pc[r] = "done" /\ response[r].status = 200 /\ out[r].written # None

\* C7 as stated (band invariant): every estimate that reaches a caller, whichever
\* strategy produced it, satisfies low <= base <= high and 0 <= confidence <= 100.
C7_BandInvariant ==
  \A r \in Reqs :
    response[r].status = 200 =>
      LET body == response[r].body[1]
          rng  == DictGet(body, "range")
      IN  /\ DictGet(rng, "low") <= DictGet(body, "valuation")
          /\ DictGet(body, "valuation") <= DictGet(rng, "high")
          /\ 0 <= DictGet(body, "confidence")
          /\ DictGet(body, "confidence") <= 100

\* C9 as stated (concurrent fan-out): on a miss the trend call is issued before the
\* comparables call has completed.
C9_IssuedConcurrently ==
  \A r \in Reqs :
    \A i \in 1..Len(log[r]) :
      log[r][i] \in {"comps_ret", "comps_err"} => \E j \in 1..(i - 1) : log[r][j] = "trends_call"

\* C10 (thundering herd): with the heuristic strategy and the offline providers, two
\* requests for the same address that both missed and both computed wrote the same
\* bytes and return the same ETag, and an entry that is under their key holds those
\* bytes, whichever of them wrote last.
C10_ThunderingHerd ==
  \A q, r \in Reqs :
    (/\ q # r
     /\ req[q].svc = "mock" /\ req[r].svc = "mock"
     /\ settings.GEO_PROVIDER = "mock" /\ settings.COMPS_PROVIDER = "mock" /\ settings.TRENDS_PROVIDER = "mock"
     /\ req[q].address = req[r].address
     /\ out[q].written # None /\ out[r].written # None)
    => /\ out[q].written = out[r].written
       /\ out[q].etag = out[r].etag
       /\ loc[q].cache_key = loc[r].cache_key
       /\ loc[q].cache_key \in DOMAIN store => store[loc[q].cache_key].value = out[q].written[1]

\* C10, witness: two requests for one address were in flight together, both missed and
\* both wrote the entry
C10_Witness ==
  \E q, r \in Reqs :
    /\ q # r
    /\ q \notin req[r].after /\ r \notin req[q].after
    /\ req[q].address = req[r].address
    /\ Len(log[q]) > 1 /\ Len(log[r]) > 1
    /\ log[q][Len(log[q])] = "cache_set" /\ log[r][Len(log[r])] = "cache_set"
    /\ out[q].written # None /\ out[r].written # None
    /\ pc[q] = "done" /\ pc[r] = "done"

C8_ExactOnRedis ==
  settings.USE_REDIS =>
    \A c \in Checks :
      Cardinality({d \in Checks : rl[d].key = rl[c].key /\ rl[d].result = "allowed"})
        <= Max(1, settings.RATE_LIMIT_RPM)
C12_GracefulFallback ==
  [][\A r \in Reqs :
       (settings.MODEL_PROVIDER = "ml" /\ ~artifact_ok) =>
         /\ (pc[r] = "idle" /\ pc'[r] # "idle") =>
              (req'[r].svc = "mock" /\ ~(pc'[r] = "done" /\ response'[r].status = 500))
         /\ (pc[r] = "trends" /\ pc'[r] # "trends" /\ loc'[r].features # None) =>
              /\ pc'[r] = "respond"
              /\ out'[r].payload = AssemblePayload(loc[r].confirmed_address, settings.DEFAULT_CURRENCY,
                                                   MockModel_predict(loc'[r].features[1]))]_vars

\* C12, witness: in such a deployment a request was valued and answered in full
C12_Witness ==
  /\ settings.MODEL_PROVIDER = "ml" /\ ~artifact_ok
  /\ \E r \in Reqs : /\ req[r].svc = "mock" /\ loc[r].features # None
                     /\ pc[r] = "done" /\ response[r].status = 200

\* C13 (trend edge case): when the trend provider returned fewer than two points, or a
\* second-to-last index of zero, the month-over-month trend is 0 and the request goes
\* on (with the heuristic strategy and usable comparables it is valued, with a trend of
\* 0 in its payload); otherwise the trend is (curr - prev) / prev * 100 of the last two
\* points (here truncated to hundredths of a percent).
C13_TrendEdgeCase ==
  \A r \in Reqs :
    loc[r].index12 # None =>
      LET pts  == loc[r].index12[1]
          n    == Len(pts)
          edge == n < 2 \/ pts[n - 1].index = 0
      IN  /\ loc[r].trend_mom_pct # None
          /\ IF edge
             THEN /\ loc[r].trend_mom_pct[1] = 0
                  /\ (req[r].svc = "mock" /\ loc[r].features # None) =>
                       /\ out[r].written # None
                       /\ DictGet(out[r].payload, "trend_mom_pct") = 0
                       /\ pc[r] = "done" => response[r].status \in {200, 304}
             ELSE LET prev == pts[n - 1].index
                      curr == pts[n].index
                      t    == loc[r].trend_mom_pct[1]
                  IN  /\ Abs(t * prev - (curr - prev) * 10000) < Abs(prev)
                      /\ (t # 0) => ((t > 0) <=> ((curr - prev) * prev > 0))

\* C13, witness: the trend provider returned a single point and the request was
\* answered in full with a trend of 0
C13_Witness ==
  \E r \in Reqs :
    /\ loc[r].index12 # None
    /\ Len(loc[r].index12[1]) = 1
    /\ pc[r] = "done" /\ response[r].status = 200
    /\ DictGet(response[r].body[1], "trend_mom_pct") = 0

\* C14 as stated (input validation): on both operations a request whose address is
\* empty, whitespace-only or shorter than 4 characters ends with a client-input error
\* (400 or 422) before the orchestrator runs: it makes no call and writes nothing.
C14_InputValidation ==
  \A r \in Reqs :
    (pc[r] # "idle" /\ (Len(req[r].raw) < 4 \/ strip(req[r].raw) = <<>>)) =>
      /\ pc[r] = "done"
      /\ response[r].status \in {400, 422}
      /\ loc[r] = NoLoc
      /\ log[r] = <<>>
      /\ out[r] = NoOut

\* C15 as stated (identical schema): every estimate that became a payload, whichever
\* strategy produced it, has the nine estimate fields, and its visual index series has
\* exactly 12 points.
C15_IdenticalSchema ==
  \A r \in Reqs :
    out[r].written # None =>
      LET payload == out[r].payload
      IN  /\ \A k \in {"valuation", "range", "confidence", "trend_mom_pct", "comparables_used",
                        "insights", "sparkline_index_12m", "factors"} : HasKey(payload, k)
          /\ HasKey(DictGet(payload, "range"), "low") /\ HasKey(DictGet(payload, "range"), "high")
          /\ Len(DictGet(payload, "sparkline_index_12m")) = 12

\* C16 as stated (address echo): the address field of every full response is the
\* confirmed address derived from the raw input of the request being answered, on a
\* miss and on a hit alike.
C16_AddressEchoesRequest ==
  \A r \in Reqs :
    response[r].status = 200 => DictGet(response[r].body[1], "address") = loc[r].confirmed_address

C18_GeocodePrerequisite ==
  \A r \in Reqs :
    LET L == log[r]
        Before(i, e) == \E j \in 1..(i - 1) : L[j] = e
    IN  /\ ("cache_get" \in Range(L) /\ ~out[r].from_cache)
             => Cardinality({i \in 1..Len(L) : L[i] = "geo_call"}) = 1
        /\ \A i \in 1..Len(L) :
             /\ L[i] \in {"comps_call", "trends_call"} => (Before(i, "geo_ret") /\ ~Before(i, "geo_err"))
             /\ L[i] \in {"predict", "predict_err"} => (Before(i, "comps_ret") /\ Before(i, "trends_ret"))

\* C18, witness: a request went through the whole pipeline in order
C18_Witness ==
  \E r \in Reqs :
    log[r] = <<"cache_get", "geo_call", "geo_ret", "comps_call", "comps_ret", "trends_call",
               "trends_ret", "predict", "cache_set">>

\* C19 (no retries): within a request each of the geocode, comparables and trend
\* providers and the strategy is invoked at most once, and a failure of one of them is
\* the last event of the request: the request has ended with one server error, with
\* no estimate and no cache write.
C19_NoRetries ==
  \A r \in Reqs :
    LET L == log[r]
        Count(es) == Cardinality({i \in 1..Len(L) : L[i] \in es})
    IN  /\ Count({"geo_call"}) <= 1
        /\ Count({"comps_call"}) <= 1
        /\ Count({"trends_call"}) <= 1
        /\ Count({"predict", "predict_err"}) <= 1
        /\ \A i \in 1..Len(L) :
             L[i] \in {"geo_err", "comps_err", "trends_err", "predict_err"} =>
               /\ i = Len(L)
               /\ pc[r] = "done"
               /\ response[r] = [status |-> 500, body |-> None, etag_header |-> None]
               /\ out[r] = NoOut
               /\ "cache_set" \notin Range(L)

\* C19, witness: the comparables provider failed and the request ended there
C19_Witness ==
  \E r \in Reqs :
    /\ log[r] = <<"cache_get", "geo_call", "geo_ret", "comps_call", "comps_err">>
    /\ pc[r] = "done" /\ response[r].status = 500

\* C20 as stated (median fallback): once the comparables and the trend are in, the
\* feature record is built without failure, and each of the beds, baths and living-area
\* medians (kept doubled) is the default (3 beds, 2 baths, 1200 sqft) when no comparable
\* has a value for the attribute - none returned, or all of them null - and the median
\* of the values that are there otherwise.
C20_MedianFallback ==
  \A r \in Reqs :
    (loc[r].comps # None /\ loc[r].index12 # None) =>
      LET comps == loc[r].comps[1]
          Expected(attr, default) ==
            IF Present(comps, attr) = <<>> THEN 2 * default ELSE median(Present(comps, attr)).value
      IN  /\ "features_err" \notin Range(log[r])
          /\ loc[r].features # None
          /\ loc[r].features[1].beds_median = Expected("beds", 3)
          /\ loc[r].features[1].baths_median = Expected("baths", 20)
          /\ loc[r].features[1].sqft_median = Expected("living_sqft", 1200)

\* C21 as stated (signal quality feeds confidence): a miss computed by the heuristic
\* strategy reports a confidence of 60 plus the signal-quality score of line 152 - the
\* minimum of 30 and four per comparable plus one per half percent of trend.
C21_SignalQualityFeedsConfidence ==
  \A r \in Reqs :
    (req[r].svc = "mock" /\ out[r].written # None /\ loc[r].comps # None /\ loc[r].trend_mom_pct # None) =>
      DictGet(out[r].payload, "confidence")
        = 60 + SignalQuality(loc[r].comps[1], loc[r].trend_mom_pct[1])

\* C22 (hosted-interpreter validation): when the hosted strategy has asked the
\* interpreter, predict returns the interpreter's object exactly when the call and the
\* parsing succeeded and the object has all nine required keys, and the response is
\* assembled from it; otherwise predict raises - a ValueError that names the missing
\* keys when the object is incomplete, a RuntimeError when the call or the parsing
\* failed - and the request has ended with a server error, no response body, no
\* result of value_address and no entry under its cache key.
C22_HostedValidation ==
  \A r \in Reqs :
    (req[r].svc = "openai" /\ loc[r].reply # None) =>
      LET reply    == loc[r].reply[1]
          p        == loc[r].model_out[1]
          complete == reply.ok /\ EstimateKeys \subseteq DOMAIN reply.data
      IN  IF complete
          THEN /\ p.ok /\ p.out = reply.data
               /\ out[r].payload = AssemblePayload(loc[r].confirmed_address, settings.DEFAULT_CURRENCY, reply.data)
               /\ log[r][Len(log[r])] = "cache_set"
          ELSE /\ ~p.ok
               /\ IF reply.ok
                  THEN p.error = "ValueError" /\ p.missing = EstimateKeys \ DOMAIN reply.data /\ p.missing # {}
                  ELSE p.error = "RuntimeError"
               /\ pc[r] = "done"
               /\ response[r] = [status |-> 500, body |-> None, etag_header |-> None]
               /\ out[r] = NoOut
               /\ "cache_set" \notin Range(log[r])
               /\ loc[r].cache_key \notin DOMAIN store

\* C22, witness: the interpreter answered with an object of three keys, predict named
\* the six missing ones, and the request ended with a server error and an empty cache
C22_Witness ==
  \E r \in Reqs :
    /\ req[r].svc = "openai"
    /\ loc[r].reply = Some([ok |-> TRUE, data |-> [base |-> 500000, low |-> 450000, high |-> 550000]])
    /\ loc[r].model_out[1].missing = {"confidence", "trend_mom_pct", "comps", "insights", "sparkline", "factors"}
    /\ response[r].status = 500
    /\ store = EmptyStore

\* C23 (local rules take priority): when the address the resolver is given has a leading
\* "<digits>," prefix, a unit/apt/suite token or a # token, the resolver returns exactly
\* one candidate, of confidence 1.0 and property type condo, without asking the
\* interpreter; and when the leading prefix is there, the candidate is the text after
\* the comma, tidied, with any unit or # token still in it.
C23_LocalRulesFirst ==
  [][\A r \in Reqs :
       (pc[r] = "resolve" /\ pc'[r] = "gate") =>
         LET raw  == req[r].address
             lead == LeadingRest(raw)
             unit == UnitSearch(" ", raw)
             hash == \E i \in 1..Len(raw) : HashMatchLen(Drop(raw, i - 1)) > 0
             cs   == loc'[r].candidates
         IN  (lead.matched \/ unit \/ hash) =>
               /\ Len(cs) = 1
               /\ DOMAIN cs[1] = {"address", "property_type", "confidence"}
               /\ cs[1].confidence = FullConfidence
               /\ cs[1].property_type = "condo"
               /\ loc'[r].completion = None
               /\ lead.matched => cs[1].address = TidyCleaned(strip(lead.rest))]_vars

\* C23, witness: with the interpreter configured, "5, 9 #2" has both the leading prefix
\* and a # token; the resolver answered "9 #2" as a condo and asked nobody
C23_Witness ==
  \E r \in Reqs :
    /\ settings.OPENAI_API_KEY # "" /\ settings.OPENAI_MODEL # ""
    /\ req[r].address = <<"5", ",", " ", "9", " ", "#", "2">>
    /\ pc[r] = "gate"
    /\ loc[r].candidates = << [address |-> <<"9", " ", "#", "2">>, property_type |-> "condo",
                               confidence |-> FullConfidence] >>
    /\ loc[r].completion = None

\* C24 (resolver fallback): when the address the resolver is given has no leading
\* "<digits>," prefix, no unit/apt/suite token and no "#", and the credential or the
\* model identifier is missing (the interpreter is then not asked) or the interpreter
\* was asked and the call or the parsing failed, the resolver returns exactly one
\* candidate: the address as it was given, at confidence 1.0, which the gate accepts.
C24_ResolverFallback ==
  [][\A r \in Reqs :
       (pc[r] = "resolve" /\ pc'[r] = "gate") =>
         LET raw      == req[r].address
             local    == \/ LeadingRest(raw).matched
                         \/ UnitSearch(" ", raw)
                         \/ "#" \in Range(raw)
             unusable == settings.OPENAI_API_KEY = "" \/ settings.OPENAI_MODEL = ""
             asked    == loc'[r].completion
         IN  /\ (~local /\ unusable) => asked = None
             /\ (~local /\ (unusable \/ (asked # None /\ ~asked[1].ok))) =>
                  /\ loc'[r].candidates = << [address |-> raw, confidence |-> FullConfidence] >>
                  /\ GateAccepts(loc'[r].candidates)]_vars

\* C24, witness: the interpreter was asked about "1 Ab" and failed; the request went on
\* with the address as given and has looked up its cache key
C24_Witness ==
  \E r \in Reqs :
    /\ req[r].address = <<"1", " ", "A", "b">>
    /\ loc[r].completion # None /\ ~loc[r].completion[1].ok
    /\ loc[r].candidates = << [address |-> <<"1", " ", "A", "b">>, confidence |-> FullConfidence] >>
    /\ loc[r].confirmed_address = <<"1", " ", "A", "b">>
    /\ loc[r].cache_key = CacheKey(<<"1", " ", "a", "b">>)

\* C25 as stated (window and identity isolation): the counter value a run of rate_limit
\* reads, and with it the allow/reject outcome, is the one left by the latest earlier
\* run of the same identity - the same credential (or none), the same client address,
\* the same minute bucket - that wrote the counter, and nothing when there is no such
\* run; so the first run of an identity in a minute bucket is allowed, whatever other
\* identities did.
C25_IdentityIsolation ==
  \A c \in Checks :
    rl[c].pc # "idle" =>
      LET At(x, ev) == CHOOSE i \in 1..Len(rl_log) : rl_log[i] = <<x, ev>>
          Credential(w) == IF w.x_api_key # None /\ w.x_api_key[1] # <<>> THEN w.x_api_key ELSE None
          Identity(d) == <<Credential(rl[d].who[1]), rl[d].who[1].client, rl[d].at>>
          writers == {d \in Checks \ {c} :
                        /\ rl[d].pc = "done" /\ rl[d].written # None
                        /\ Identity(d) = Identity(c)
                        /\ At(d, "end") < At(c, "get")}
      IN  IF writers = {}
          THEN /\ rl[c].current = None
               /\ rl[c].pc = "done" => rl[c].result = "allowed"
          ELSE LET last == CHOOSE d \in writers : \A e \in writers : At(e, "end") <= At(d, "end")
               IN  rl[c].current = rl[last].written

\* C26 as stated (strategy selected once): among the requests a process has received,
\* at most one has run the construction of the service and with it the selection of
\* the strategy, and all of them are served by the same strategy variant.
C26_SelectedOnce ==
  /\ Cardinality({r \in Reqs : req[r].constructed}) <= 1
  /\ \A r, q \in Reqs : (req[r].constructed /\ req[q].constructed) => req[r].svc = req[q].svc

C28_CounterInvariant ==
  [][/\ \A k \in DOMAIN store' :
          /\ IsNumeral(store'[k].value)
          /\ 1 <= StrToNat(store'[k].value)
          /\ StrToNat(store'[k].value) <= Max(1, settings.RATE_LIMIT_RPM)
     /\ \A c \in Checks :
          (rl[c].pc = "set" /\ rl'[c].pc = "done" /\ rl'[c].result = "rejected") =>
            /\ store' = store
            /\ rl'[c].written = None
     /\ \A c \in Checks :
          LET At(x, ev)  == CHOOSE i \in 1..Len(rl_log') : rl_log'[i] = <<x, ev>>
              same       == {d \in Checks : rl'[d].pc # "idle" /\ rl'[d].key = rl'[c].key}
              sequential == \A d, e \in same :
                              (d <= c /\ d < e) => (rl'[d].pc = "done" /\ At(d, "end") < At(e, "get"))
              k          == Cardinality({d \in same : d <= c})
          IN  (rl'[c].pc = "done" /\ settings.RATE_LIMIT_RPM <= 0 /\ sequential) =>
                IF k = 1
                THEN rl'[c].result = "allowed" /\ rl'[c].written = Some(<<"1">>)
                ELSE rl'[c].result = "rejected"]_vars

\* C28, witness: with a configured limit of 0, two runs of one caller in one minute,
\* one after the other: the first is allowed, the second rejected, the counter is 1
C28_Witness ==
  /\ settings.RATE_LIMIT_RPM = 0
  /\ rl_log = << <<1, "get">>, <<1, "end">>, <<2, "get">>, <<2, "end">> >>
  /\ rl[1].key = rl[2].key
  /\ rl[1].result = "allowed" /\ rl[2].result = "rejected"
  /\ rl[1].key \in DOMAIN store /\ store[rl[1].key].value = <<"1">>

\* C29 as stated (non-empty key material): a request that has passed the gate and
\* looked up the cache has a non-empty normalized address, so its key is not the bare
\* "valuation:", and no entry is stored under the bare key.
C29_NonEmptyKeyMaterial ==
  /\ \A r \in Reqs :
       loc[r].got_at # None => (loc[r].addr_norm # <<>> /\ loc[r].cache_key # CacheKey(<<>>))
  /\ CacheKey(<<>>) \notin DOMAIN store

=============================================================================
